---- MODULE Spec2Model ----
(***************************************************************************)
(* Model of the lru-cache library: the LruMap (a doubly linked list plus a *)
(* key index), the LruCache facade with its alternate-key index, the       *)
(* listener registry and the change aggregator (cacheTransaction).         *)
(*                                                                         *)
(* Representation choices:                                                 *)
(*   - JS null / undefined pointers are the string Null;                   *)
(*   - a sizeLimit of null (unbounded) is the number NoLimit;              *)
(*   - a JS Map is a function whose DOMAIN is the set of its keys;         *)
(*   - a JS Set that is iterated (handler keys) is a duplicate-free        *)
(*     sequence in insertion order, a JS Set that is only tested for       *)
(*     membership (alternateKeys) is a set;                                *)
(*   - "removed entry or null" results are sequences of length <= 1.       *)
(***************************************************************************)
EXTENDS Integers, Sequences, FiniteSets, TLC

\* ------------------------------------------------------------------------
\* Bounds and input domains
\* ------------------------------------------------------------------------
MaxSizeArg == 2

MaxBatch == 2

MaxHandlers == 2

\* SpecTx: open transactions, events recorded in one transaction, handlers
MaxOpen == 2

MaxTxEvents == 2

MaxTxHandlers == 1

\* SpecAsync: calls of setAsync / setAllAsync
MaxAsync == 2

Null == "null"

NoLimit == 0

DEFAULT_MAX_SIZE == 500

Keys == {"k1", "k2", "k3"}

Values == {"v1", "v2"}

\* ------------------------------------------------------------------------
\* Generic helpers
\* ------------------------------------------------------------------------
Restrict(f, S) == [x \in S |-> f[x]]

MapPut(f, k, v) == [x \in (DOMAIN f) \cup {k} |-> IF x = k THEN v ELSE f[x]]

MapRemove(f, k) == Restrict(f, (DOMAIN f) \ {k})

EmptyMap == [x \in {} |-> Null]

SeqWithout(s, x) == SelectSeq(s, LAMBDA y : y # x)

Touch(s, x) == Append(SeqWithout(s, x), x)

\* ------------------------------------------------------------------------
\* LruMap: linked list operations (second, current revision of LruMap.js)
\* An LruMap is [keyToEntry, newest, oldest, sizeLimit]; keyToEntry maps a
\* key to its node [value, next, prev] (next / prev are keys or Null).
\* ------------------------------------------------------------------------
NormalizeCtorMaxSize(maxSize) == IF maxSize = 0 THEN NoLimit ELSE maxSize

NewLruMap(maxSize) ==
  [keyToEntry |-> EmptyMap, newest |-> Null, oldest |-> Null,
   sizeLimit |-> NormalizeCtorMaxSize(maxSize)]

getSize(m) == Cardinality(DOMAIN m.keyToEntry)

getMaxSize(m) == m.sizeLimit

\* entry.next = v, a no-op on the model when the entry is not a live node
SetNextOf(e, k, v) == IF k \in DOMAIN e THEN [e EXCEPT ![k].next = v] ELSE e

SetPrevOf(e, k, v) == IF k \in DOMAIN e THEN [e EXCEPT ![k].prev = v] ELSE e

addNewest(m, key) ==
  IF m.newest = Null
  THEN [m EXCEPT !.newest = key, !.oldest = key]
  ELSE LET e1 == SetNextOf(m.keyToEntry, m.newest, key)
           e2 == SetPrevOf(e1, key, m.newest)
       IN  [m EXCEPT !.keyToEntry = e2, !.newest = key]

makeNewest(m, key) ==
  IF key = m.newest
  THEN m
  ELSE LET e0 == m.keyToEntry
           e1 == SetNextOf(e0, m.newest, key)
       IN  IF e1[key].prev = Null
           THEN \* entry is current oldest (and not newest)
                LET e2 == SetPrevOf(e1, key, m.newest)
                    e3 == SetPrevOf(e2, e2[key].next, Null)
                    o  == e3[key].next
                    e4 == SetNextOf(e3, key, Null)
                IN  [m EXCEPT !.keyToEntry = e4, !.oldest = o, !.newest = key]
           ELSE \* entry is neither newest, nor oldest
                LET e2 == SetNextOf(e1, e1[key].prev, e1[key].next)
                    e3 == SetPrevOf(e2, e2[key].next, e2[key].prev)
                    e4 == SetPrevOf(e3, key, m.newest)
                    e5 == SetNextOf(e4, key, Null)
                IN  [m EXCEPT !.keyToEntry = e5, !.newest = key]

\* mutant: removing the newest entry leaves entryList.newest as it was
removeEntryKeepsNewest(m, key) ==
  LET e0 == m.keyToEntry
      n  == e0[key].next
      p  == e0[key].prev
      e1 == IF n = Null THEN e0 ELSE SetPrevOf(e0, n, p)
      oldest1 == IF p = Null THEN n ELSE m.oldest
      e2 == IF p = Null THEN e1 ELSE SetNextOf(e1, p, n)
  IN  [m EXCEPT !.keyToEntry = MapRemove(e2, key), !.oldest = oldest1]

removeEntry(m, key) ==
  LET e0 == m.keyToEntry
      n  == e0[key].next
      p  == e0[key].prev
      newest1 == IF n = Null THEN p ELSE m.newest
      e1 == IF n = Null THEN e0 ELSE SetPrevOf(e0, n, p)
      oldest1 == IF p = Null THEN n ELSE m.oldest
      e2 == IF p = Null THEN e1 ELSE SetNextOf(e1, p, n)
  IN  [m EXCEPT !.keyToEntry = MapRemove(e2, key),
                !.newest = newest1, !.oldest = oldest1]

\* returns [m, removed]: removed is the {key, value} pair of the old head
removeOldest(m) ==
  LET old == m.oldest
      nxt == m.keyToEntry[old].next
      e1  == MapRemove(m.keyToEntry, old)
      e2  == SetPrevOf(e1, nxt, Null)
  IN  [m |-> [m EXCEPT !.keyToEntry = e2, !.oldest = nxt],
       removed |-> [key |-> old, value |-> m.keyToEntry[old].value]]

RECURSIVE shrinkLoop(_, _, _)
shrinkLoop(maxSize, m, removals) ==
  IF getSize(m) > maxSize /\ m.oldest \in DOMAIN m.keyToEntry
  THEN LET r == removeOldest(m)
       IN  shrinkLoop(maxSize, r.m, Append(removals, r.removed))
  ELSE [m |-> m, removals |-> removals]

\* mutant: the loop stops one entry too early
shrinkToMaxSizeOneTooMany(maxSize, m) ==
  IF maxSize = NoLimit
  THEN [m |-> m, removals |-> << >>]
  ELSE shrinkLoop(maxSize + 1, m, << >>)

shrinkToMaxSize(maxSize, m) ==
  IF maxSize = NoLimit
  THEN [m |-> m, removals |-> << >>]
  ELSE shrinkLoop(maxSize, m, << >>)

\* ------------------------------------------------------------------------
\* LruMap: public methods.  Each returns [m |-> new map, ret |-> result].
\* ------------------------------------------------------------------------
LruMapSetMaxSize(m, newMaxSize) ==
  LET limit == IF newMaxSize < 1 THEN NoLimit ELSE newMaxSize
      r == shrinkToMaxSize(limit, [m EXCEPT !.sizeLimit = limit])
  IN  [m |-> r.m, ret |-> r.removals]

\* mutant: a key that is not in the map yet is not stored
LruMapSetForgetsNewKey(m, key, value) ==
  IF key \notin DOMAIN m.keyToEntry
  THEN [m |-> m, ret |-> << >>]
  ELSE LET m1 == [m EXCEPT !.keyToEntry[key].value = value]
       IN  [m |-> makeNewest(m1, key), ret |-> << >>]

LruMapSet(m, key, value) ==
  IF key \notin DOMAIN m.keyToEntry
  THEN LET node == [value |-> value, next |-> Null, prev |-> Null]
           m1 == [m EXCEPT !.keyToEntry = MapPut(m.keyToEntry, key, node)]
           m2 == addNewest(m1, key)
           r  == shrinkToMaxSize(m2.sizeLimit, m2)
       IN  [m |-> r.m,
            ret |-> IF Len(r.removals) = 1 THEN <<r.removals[1]>> ELSE << >>]
  ELSE LET m1 == [m EXCEPT !.keyToEntry[key].value = value]
       IN  [m |-> makeNewest(m1, key), ret |-> << >>]

\* mutant: get returns the value but does not make the entry the newest
LruMapGetNoTouch(m, key) ==
  IF key \notin DOMAIN m.keyToEntry
  THEN [m |-> m, ret |-> << >>]
  ELSE [m |-> m, ret |-> <<m.keyToEntry[key].value>>]

\* ret is a sequence: << >> for undefined, <<value>> otherwise
LruMapGet(m, key) ==
  IF key \notin DOMAIN m.keyToEntry
  THEN [m |-> m, ret |-> << >>]
  ELSE [m |-> makeNewest(m, key), ret |-> <<m.keyToEntry[key].value>>]

\* mutant: the lookup makes the entry the newest, as get does
LruMapGetWithoutLruChangeTouching(m, key) == LruMapGet(m, key)

LruMapGetWithoutLruChange(m, key) ==
  [m |-> m,
   ret |-> IF key \in DOMAIN m.keyToEntry THEN <<m.keyToEntry[key].value>> ELSE << >>]

LruMapDelete(m, key) ==
  IF key \notin DOMAIN m.keyToEntry
  THEN [m |-> m, ret |-> FALSE]
  ELSE [m |-> removeEntry(m, key), ret |-> TRUE]

\* map(callback) with callback = (value, key) => ({key, value}); the walk
\* follows next from oldest (fuel bounds the walk on a cyclic list)
RECURSIVE walk(_, _, _)
walk(m, k, fuel) ==
  IF k = Null \/ k \notin DOMAIN m.keyToEntry \/ fuel = 0
  THEN << >>
  ELSE <<[key |-> k, value |-> m.keyToEntry[k].value]>>
         \o walk(m, m.keyToEntry[k].next, fuel - 1)

LruMapMap(m) == walk(m, m.oldest, Cardinality(DOMAIN m.keyToEntry) + 1)

LruMapKeys(m) == [i \in 1..Len(LruMapMap(m)) |-> LruMapMap(m)[i].key]

LruMapClear(m) ==
  [m |-> [m EXCEPT !.keyToEntry = EmptyMap, !.newest = Null, !.oldest = Null],
   ret |-> LruMapMap(m)]

\* ------------------------------------------------------------------------
\* Listener registry (module state of LruCache.js)
\* A handler filter is a sequence of value types; << >> stands for null or
\* an empty array (both register for all types), a single string is the
\* one-element sequence.
\* ------------------------------------------------------------------------
SetAdd(s, x) == IF \E i \in 1..Len(s) : s[i] = x THEN s ELSE Append(s, x)

SeqToSet(s) == {s[i] : i \in 1..Len(s)}

\* reg is [keyToChangedHandler, valueTypeToActiveChangeHandlerKeys,
\*         allTypesActiveChangeHandlerKeys, nextHandlerKey]
RECURSIVE addTypes(_, _, _, _)
addTypes(byType, key, types, i) ==
  IF i > Len(types) THEN byType
  ELSE LET vt == types[i]
           old == IF vt \in DOMAIN byType THEN byType[vt] ELSE << >>
       IN  addTypes(MapPut(byType, vt, SetAdd(old, key)), key, types, i + 1)

\* The valueTypes argument of registerCacheChangedHandler is
\* [kind |-> "null"], [kind |-> "string", str |-> t] or
\* [kind |-> "array", arr |-> <<...>>].
FilterNull == [kind |-> "null"]

FilterString(t) == [kind |-> "string", str |-> t]

FilterArray(a) == [kind |-> "array", arr |-> a]

\* valueTypes === null || (Array.isArray(valueTypes) && valueTypes.length === 0)
isAllTypes(valueTypes) ==
  \/ valueTypes.kind = "null"
  \/ valueTypes.kind = "array" /\ Len(valueTypes.arr) = 0

\* Array.isArray(valueTypes) ? valueTypes : [valueTypes]
typesOf(valueTypes) ==
  IF valueTypes.kind = "array" THEN valueTypes.arr ELSE <<valueTypes.str>>

addToActiveHandlerKeys(reg, key, valueTypes) ==
  IF isAllTypes(valueTypes)
  THEN [reg EXCEPT !.allTypesActiveChangeHandlerKeys = SetAdd(@, key)]
  ELSE [reg EXCEPT !.valueTypeToActiveChangeHandlerKeys =
                      addTypes(@, key, typesOf(valueTypes), 1)]

\* mutant: only a handler registered for all types is taken out
removeFromActiveHandlerKeysAllTypesOnly(reg, key, valueTypes) ==
  IF isAllTypes(valueTypes)
  THEN [reg EXCEPT !.allTypesActiveChangeHandlerKeys = SeqWithout(@, key)]
  ELSE reg

removeFromActiveHandlerKeys(reg, key, valueTypes) ==
  IF isAllTypes(valueTypes)
  THEN [reg EXCEPT !.allTypesActiveChangeHandlerKeys = SeqWithout(@, key)]
  ELSE [reg EXCEPT !.valueTypeToActiveChangeHandlerKeys =
          [vt \in DOMAIN @ |-> IF vt \in SeqToSet(typesOf(valueTypes))
                               THEN SeqWithout(@[vt], key) ELSE @[vt]]]

RECURSIVE addAllKeys(_, _, _)
addAllKeys(result, keys, i) ==
  IF i > Len(keys) THEN result ELSE addAllKeys(SetAdd(result, keys[i]), keys, i + 1)

RECURSIVE collectTypeKeys(_, _, _, _)
collectTypeKeys(reg, result, types, i) ==
  IF i > Len(types) THEN result
  ELSE LET byType == reg.valueTypeToActiveChangeHandlerKeys
           r1 == IF types[i] \in DOMAIN byType
                 THEN addAllKeys(result, byType[types[i]], 1) ELSE result
       IN  collectTypeKeys(reg, r1, types, i + 1)

\* valueTypes is the record's valueTypes Set, in insertion order
getActiveHandlerKeys(reg, valueTypes) ==
  addAllKeys(collectTypeKeys(reg, << >>, valueTypes, 1),
             reg.allTypesActiveChangeHandlerKeys, 1)

\* mutant: only the handlers registered for all types count
hasActiveHandlerAllTypesOnly(reg, valueType) ==
  Len(reg.allTypesActiveChangeHandlerKeys) > 0

hasActiveHandler(reg, valueType) ==
  IF Len(reg.allTypesActiveChangeHandlerKeys) > 0 THEN TRUE
  ELSE IF valueType \in DOMAIN reg.valueTypeToActiveChangeHandlerKeys
       THEN Len(reg.valueTypeToActiveChangeHandlerKeys[valueType]) > 0
       ELSE FALSE

\* ------------------------------------------------------------------------
\* Change aggregator.  The part of the program state an operation works on
\* is a world w:
\*   cache        the LruCache the operation is called on
\*   tco          transactionChangeObject: << >> (null) or <<record>>
\*   changeOrder, runningTransactions, handleChanges
\*   log          handler invocations so far: [handler, record]
\*   thrown       "none", or the error that is propagating
\*   handlerError << >>, or <<[errors, handled]>>: the counts in the message
\*                of the error handleTransactionChangeObject has thrown
\*   applied      ghost: the setAll array elements processed so far
\*   evicted      ghost: the keys evicted by the LruMap so far
\* A record is [valueTypes |-> sequence of types, ev |-> type -> kind -> events].
\* ------------------------------------------------------------------------
NewChangeObject == [valueTypes |-> << >>, ev |-> EmptyMap]

EmptyLists == [inserts |-> << >>, clearRemoves |-> << >>,
               lruRemoves |-> << >>, deleteRemoves |-> << >>]

\* one turn of the forEach of lines 123-134: the handler of key is looked
\* up and called with the record inside try / catch / finally.  The
\* handler called here reads the record and returns or throws; handlers
\* that change a cache are those of invokeHandlerReentrant
invokeHandler(reg, key, acc) ==
  LET known == key \in DOMAIN reg.keyToChangedHandler
      w1 == IF known
            THEN [acc.w EXCEPT !.log = Append(@, [handler |-> key,
                                                  record |-> acc.record])]
            ELSE acc.w
      threw == IF known THEN reg.keyToChangedHandler[key].throws ELSE TRUE
  IN  [w |-> w1,
       record |-> acc.record,
       errors |-> acc.errors + (IF threw THEN 1 ELSE 0),
       handled |-> acc.handled + 1]

\* mutant: no try / catch around the handler, the first throw ends the loop
RECURSIVE invokeHandlersStopAtThrow(_, _, _, _, _)
invokeHandlersStopAtThrow(reg, keys, i, changeObject, acc) ==
  IF i > Len(keys) \/ acc.errors > 0 THEN acc
  ELSE invokeHandlersStopAtThrow(reg, keys, i + 1, changeObject,
                                 invokeHandler(reg, keys[i], acc))

RECURSIVE invokeHandlers(_, _, _, _, _)
invokeHandlers(reg, keys, i, changeObject, acc) ==
  IF i > Len(keys) THEN acc
  ELSE invokeHandlers(reg, keys, i + 1, changeObject,
                      invokeHandler(reg, keys[i], acc))

handleTransactionChangeObject(reg, w, changeObject) ==
  LET activeHandlerKeys == getActiveHandlerKeys(reg, changeObject.valueTypes)
      r == invokeHandlers(reg, activeHandlerKeys, 1, changeObject,
                          [w |-> w, record |-> changeObject,
                           errors |-> 0, handled |-> 0])
  IN  [r.w EXCEPT !.thrown = IF r.errors > 0 THEN "handler" ELSE @,
                  !.handlerError = IF r.errors > 0
                                   THEN <<[errors |-> r.errors, handled |-> r.handled]>>
                                   ELSE @]

\* cacheTransaction, up to the call of the callback
cacheTransactionBegin(w) ==
  [w EXCEPT !.tco = IF @ = << >> THEN <<NewChangeObject>> ELSE @,
            !.runningTransactions = @ + 1]

\* mutant: every transaction that closes dispatches, open ones or not
cacheTransactionEndAlwaysDispatch(reg, w) ==
  LET w3 == [w EXCEPT !.runningTransactions = @ - 1]
      w4 == handleTransactionChangeObject(reg, w3, w3.tco[1])
  IN  IF w3.runningTransactions = 0
      THEN [w4 EXCEPT !.tco = << >>, !.changeOrder = 0]
      ELSE w4

\* cacheTransaction, the finally block: w is the world the callback left,
\* whether it returned or threw
cacheTransactionEnd(reg, w) ==
  LET w3 == [w EXCEPT !.runningTransactions = @ - 1]
  IN  IF w3.runningTransactions = 0
      THEN LET w4 == handleTransactionChangeObject(reg, w3, w3.tco[1])
           IN  [w4 EXCEPT !.tco = << >>, !.changeOrder = 0]
      ELSE w3

\* mutant: the order of an event counts the events of its own list only
handleChangeOrderPerList(reg, w, valueType, keyValueAlternateKeys, fieldNameAdd) ==
  LET co0 == w.tco[1]
      lists0 == IF valueType \in SeqToSet(co0.valueTypes)
                THEN co0.ev[valueType] ELSE EmptyLists
      event == [key |-> keyValueAlternateKeys.key,
                value |-> keyValueAlternateKeys.value,
                alternateKeys |-> keyValueAlternateKeys.alternateKeys,
                order |-> Len(lists0[fieldNameAdd])]
      lists1 == [lists0 EXCEPT ![fieldNameAdd] = Append(@, event)]
      co1 == [valueTypes |-> SetAdd(co0.valueTypes, valueType),
              ev |-> MapPut(co0.ev, valueType, lists1)]
  IN  [w EXCEPT !.changeOrder = @ + 1, !.tco = <<co1>>]

\* mutant: every change is dispatched at once, also inside a transaction
handleChangeUnbatched(reg, w, valueType, keyValueAlternateKeys, fieldNameAdd) ==
  LET event == [key |-> keyValueAlternateKeys.key,
                value |-> keyValueAlternateKeys.value,
                alternateKeys |-> keyValueAlternateKeys.alternateKeys,
                order |-> w.changeOrder]
      co1 == [valueTypes |-> <<valueType>>,
              ev |-> MapPut(EmptyMap, valueType,
                            [EmptyLists EXCEPT ![fieldNameAdd] = <<event>>])]
  IN  handleTransactionChangeObject(reg, [w EXCEPT !.changeOrder = @ + 1], co1)

\* mutant: the entry itself is pushed, not a copy of it, so the events
\* recorded for the key all show the entry as it is now
handleChangeLiveEntry(reg, w, valueType, keyValueAlternateKeys, fieldNameAdd) ==
  LET batchChanges == w.tco # << >>
      co0 == IF batchChanges THEN w.tco[1] ELSE NewChangeObject
      event == [key |-> keyValueAlternateKeys.key,
                value |-> keyValueAlternateKeys.value,
                alternateKeys |-> keyValueAlternateKeys.alternateKeys,
                order |-> w.changeOrder]
      lists0 == IF valueType \in SeqToSet(co0.valueTypes)
                THEN co0.ev[valueType] ELSE EmptyLists
      live == [k \in DOMAIN lists0 |->
                 [i \in 1..Len(lists0[k]) |->
                    IF lists0[k][i].key = event.key
                    THEN [event EXCEPT !.order = lists0[k][i].order]
                    ELSE lists0[k][i]]]
      lists1 == [live EXCEPT ![fieldNameAdd] = Append(@, event)]
      co1 == [valueTypes |-> SetAdd(co0.valueTypes, valueType),
              ev |-> MapPut(co0.ev, valueType, lists1)]
      w1 == [w EXCEPT !.changeOrder = @ + 1,
                      !.tco = IF batchChanges THEN <<co1>> ELSE @]
  IN  IF batchChanges THEN w1 ELSE handleTransactionChangeObject(reg, w1, co1)

handleChange(reg, w, valueType, keyValueAlternateKeys, fieldNameAdd) ==
  LET batchChanges == w.tco # << >>
      co0 == IF batchChanges THEN w.tco[1] ELSE NewChangeObject
      event == [key |-> keyValueAlternateKeys.key,
                value |-> keyValueAlternateKeys.value,
                alternateKeys |-> keyValueAlternateKeys.alternateKeys,
                order |-> w.changeOrder]
      lists0 == IF valueType \in SeqToSet(co0.valueTypes)
                THEN co0.ev[valueType] ELSE EmptyLists
      lists1 == [lists0 EXCEPT ![fieldNameAdd] = Append(@, event)]
      co1 == [valueTypes |-> SetAdd(co0.valueTypes, valueType),
              ev |-> MapPut(co0.ev, valueType, lists1)]
      w1 == [w EXCEPT !.changeOrder = @ + 1,
                      !.tco = IF batchChanges THEN <<co1>> ELSE @]
  IN  IF batchChanges THEN w1 ELSE handleTransactionChangeObject(reg, w1, co1)

handleInsert(reg, w, valueType, e) ==
  IF w.handleChanges THEN handleChange(reg, w, valueType, e, "inserts") ELSE w

\* mutant: the cleared entry is recorded in the list of the deletes
handleClearRemoveAsDeleteRemove(reg, w, valueType, e) ==
  IF w.handleChanges THEN handleChange(reg, w, valueType, e, "deleteRemoves") ELSE w

handleClearRemove(reg, w, valueType, e) ==
  IF w.handleChanges THEN handleChange(reg, w, valueType, e, "clearRemoves") ELSE w

\* mutant: the eviction is recorded in the list of the deletes
handleLruRemoveAsDeleteRemove(reg, w, valueType, e) ==
  IF w.handleChanges THEN handleChange(reg, w, valueType, e, "deleteRemoves") ELSE w

handleLruRemove(reg, w, valueType, e) ==
  IF w.handleChanges THEN handleChange(reg, w, valueType, e, "lruRemoves") ELSE w

handleDeleteRemove(reg, w, valueType, e) ==
  IF w.handleChanges THEN handleChange(reg, w, valueType, e, "deleteRemoves") ELSE w

\* mutant: no inner finally, the reset is skipped when a handler has thrown
promiseFinallyNoReset(reg, w) ==
  LET w3 == [w EXCEPT !.runningTransactions = @ - 1]
  IN  IF w3.runningTransactions = 0
      THEN LET w4 == handleTransactionChangeObject(reg, w3, w3.tco[1])
           IN  IF w4.handlerError # << >> THEN w4
               ELSE [w4 EXCEPT !.tco = << >>, !.changeOrder = 0]
      ELSE w3

\* mutant: the callback is handed to promise.then, a rejected promise
\* leaves its transaction open
promiseThenOnly(reg, w) ==
  LET w3 == [w EXCEPT !.runningTransactions = @ - 1]
  IN  IF w.thrown = "rejected" THEN w
      ELSE IF w3.runningTransactions = 0
      THEN LET w4 == handleTransactionChangeObject(reg, w3, w3.tco[1])
           IN  [w4 EXCEPT !.tco = << >>, !.changeOrder = 0]
      ELSE w3

\* cacheTransaction with a promise: the callback handed to promise.finally,
\* run when the promise has settled (fulfilled or rejected)
promiseFinally(reg, w) ==
  LET w3 == [w EXCEPT !.runningTransactions = @ - 1]
  IN  IF w3.runningTransactions = 0
      THEN LET w4 == handleTransactionChangeObject(reg, w3, w3.tco[1])
           IN  [w4 EXCEPT !.tco = << >>, !.changeOrder = 0]
      ELSE w3

\* mutant: handleChanges is not switched off when no handler is interested
wrapInTransactionBeginKeepsHandling(reg, w, valueType) ==
  IF hasActiveHandler(reg, valueType)
  THEN cacheTransactionBegin(w)
  ELSE w

\* wrapInTransaction, up to the call of transactionCallback
wrapInTransactionBegin(reg, w, valueType) ==
  IF hasActiveHandler(reg, valueType)
  THEN cacheTransactionBegin(w)
  ELSE [w EXCEPT !.handleChanges = FALSE]

\* wrapInTransaction, after transactionCallback has returned or thrown
wrapInTransactionEnd(reg, w, valueType) ==
  IF hasActiveHandler(reg, valueType)
  THEN cacheTransactionEnd(reg, w)
  ELSE [w EXCEPT !.handleChanges = TRUE]

\* ------------------------------------------------------------------------
\* LruCache.  A cache is [lruMap, alternateKeyToKey, dispatchLruRemoves,
\* dispatchClearRemoves]; the values of its lruMap are the entries
\* [key, value, alternateKeys].  The alternateKeys argument of set / setAll
\* is [kind |-> "array", arr |-> <<...>>], [kind |-> "string", str |-> s]
\* or [kind |-> "none"] (undefined).
\* ------------------------------------------------------------------------
NewLruCache ==
  [lruMap |-> NewLruMap(DEFAULT_MAX_SIZE), alternateKeyToKey |-> EmptyMap,
   dispatchLruRemoves |-> FALSE, dispatchClearRemoves |-> FALSE]

NewWorld(cache, tco, changeOrder, runningTransactions, handleChanges) ==
  [cache |-> cache, tco |-> tco, changeOrder |-> changeOrder,
   runningTransactions |-> runningTransactions, handleChanges |-> handleChanges,
   log |-> << >>, thrown |-> "none", handlerError |-> << >>, applied |-> 0,
   evicted |-> << >>]

\* lines 286-289 of setAll: the alternate keys as an array
altKeysOf(alternateKeys) ==
  IF alternateKeys.kind = "array" THEN alternateKeys.arr
  ELSE IF alternateKeys.kind = "string" THEN <<alternateKeys.str>>
  ELSE << >>

\* mutant: any existing binding is a conflict, also one to the same key
altKeyConflictAnyBinding(alternateKeyToKey, altKeys, key) ==
  \E i \in 1..Len(altKeys) : altKeys[i] \in DOMAIN alternateKeyToKey

\* lines 290-294 of setAll
altKeyConflict(alternateKeyToKey, altKeys, key) ==
  \E i \in 1..Len(altKeys) :
     /\ altKeys[i] \in DOMAIN alternateKeyToKey
     /\ alternateKeyToKey[altKeys[i]] # key

RECURSIVE bindAll(_, _, _, _)
bindAll(alternateKeyToKey, altKeys, key, i) ==
  IF i > Len(altKeys) THEN alternateKeyToKey
  ELSE bindAll(MapPut(alternateKeyToKey, altKeys[i], key), altKeys, key, i + 1)

\* mutant: the alternate keys of a removed entry stay in the index
unbindNone(alternateKeyToKey, altKeySet) == alternateKeyToKey

unbindAll(alternateKeyToKey, altKeySet) ==
  Restrict(alternateKeyToKey, (DOMAIN alternateKeyToKey) \ altKeySet)

\* mutant: an update replaces the entry's alternate keys by the given ones
replaceAlternateKeys(alternateKeys, altSet) == altSet

\* line 305 of setAll: new Set([...entry.alternateKeys, ...altKeys])
mergeAlternateKeys(alternateKeys, altSet) == alternateKeys \cup altSet

\* the body of the forEach callback of setAll, for one array element
setAllEntry(reg, w, valueType, item) ==
  LET c == w.cache
      key == item.key
      g == LruMapGet(c.lruMap, key)
      altKeys == altKeysOf(item.alternateKeys)
  IN  IF altKeyConflict(c.alternateKeyToKey, altKeys, key)
      THEN [w EXCEPT !.cache.lruMap = g.m, !.thrown = "conflict"]
      ELSE
        LET altSet == SeqToSet(altKeys)
            entry == IF g.ret = << >>
                     THEN [key |-> key, value |-> item.value, alternateKeys |-> altSet]
                     ELSE [g.ret[1] EXCEPT !.value = item.value,
                                           !.alternateKeys =
                                              mergeAlternateKeys(@, altSet)]
            s == LruMapSet(g.m, key, entry)
            idx1 == bindAll(c.alternateKeyToKey, altKeys, key, 1)
            w1 == handleInsert(reg,
                    [w EXCEPT !.cache.lruMap = s.m, !.cache.alternateKeyToKey = idx1],
                    valueType, entry)
        IN  IF w1.thrown # "none" \/ s.ret = << >>
            THEN w1
            ELSE LET removed == s.ret[1]
                     w2 == [w1 EXCEPT !.cache.alternateKeyToKey =
                                         unbindAll(@, removed.value.alternateKeys),
                                      !.evicted = Append(@, removed.key)]
                 IN  IF c.dispatchLruRemoves
                     THEN handleLruRemove(reg, w2, valueType, removed.value)
                     ELSE w2

RECURSIVE setAllLoop(_, _, _, _, _)
setAllLoop(reg, w, valueType, items, i) ==
  IF i > Len(items) \/ w.thrown # "none" THEN w
  ELSE LET w1 == setAllEntry(reg, w, valueType, items[i])
           \* applied is a ghost counter: the array elements processed without a throw
           w2 == IF w1.thrown = "none" THEN [w1 EXCEPT !.applied = @ + 1] ELSE w1
       IN  setAllLoop(reg, w2, valueType, items, i + 1)

setAll(reg, w, valueType, keyValueAlternateKeysArray) ==
  wrapInTransactionEnd(reg,
    setAllLoop(reg, wrapInTransactionBegin(reg, w, valueType), valueType,
               keyValueAlternateKeysArray, 1),
    valueType)

\* mutant: the wrapped function is called at once, in the calling turn
asyncWrapEager(reg, w, valueType, keyValueAlternateKeysArray) ==
  setAll(reg, w, valueType, keyValueAlternateKeysArray)

\* asyncWrap(self.set) / asyncWrap(self.setAll), the call itself: the
\* executor of the new promise hands a callback to setTimeout and returns
asyncWrap(reg, w, valueType, keyValueAlternateKeysArray) == w

\* the callback asyncWrap has handed to setTimeout: it calls the wrapped
\* function, and resolves the promise or, if that threw, rejects it
asyncWrapTimeout(reg, w, valueType, keyValueAlternateKeysArray) ==
  setAll(reg, w, valueType, keyValueAlternateKeysArray)

settle(w) == IF w.thrown = "none" THEN "fulfilled" ELSE "rejected"

\* the getter handed to entryGetter: lruMap.get or lruMap.getWithoutLruChange
callGetter(m, key, getter) ==
  IF getter = "get" THEN LruMapGet(m, key) ELSE LruMapGetWithoutLruChange(m, key)

\* entryGetter(key, alternateKeyToKey, getter): getter is a method of the
\* cache's lruMap; the result is [m |-> the lruMap afterwards, ret |-> entry]
entryGetter(c, key, getter) ==
  LET r1 == callGetter(c.lruMap, key, getter)
  IN  IF r1.ret = << >> /\ key \in DOMAIN c.alternateKeyToKey
      THEN callGetter(r1.m, c.alternateKeyToKey[key], getter)
      ELSE r1

\* LruCache.get; the result is [cache, ret], ret << >> for undefined
cacheGet(c, keyOrAlternateKey) ==
  LET r == entryGetter(c, keyOrAlternateKey, "get")
  IN  [cache |-> [c EXCEPT !.lruMap = r.m],
       ret |-> IF r.ret = << >> THEN << >> ELSE <<r.ret[1].value>>]

cacheGetWithoutLruChange(c, keyOrAlternateKey) ==
  LET r == entryGetter(c, keyOrAlternateKey, "getWithoutLruChange")
  IN  [cache |-> [c EXCEPT !.lruMap = r.m],
       ret |-> IF r.ret = << >> THEN << >> ELSE <<r.ret[1].value>>]

\* LruCache.delete; the result is [w, ret]
cacheDelete(reg, w, valueType, keyOrAlternateKey) ==
  LET c0 == w.cache
      g == entryGetter(c0, keyOrAlternateKey, "getWithoutLruChange")
      c == [c0 EXCEPT !.lruMap = g.m]
      entry == g.ret
  IN  IF entry = << >>
      THEN [w |-> [w EXCEPT !.cache = c], ret |-> FALSE]
      ELSE LET d == LruMapDelete(c.lruMap, entry[1].key)
               c1 == [c EXCEPT !.lruMap = d.m,
                               !.alternateKeyToKey = unbindAll(@, entry[1].alternateKeys)]
           IN  [w |-> wrapInTransactionEnd(reg,
                        handleDeleteRemove(reg,
                          wrapInTransactionBegin(reg, [w EXCEPT !.cache = c1], valueType),
                          valueType, entry[1]),
                        valueType),
                ret |-> TRUE]

RECURSIVE clearLoop(_, _, _, _, _)
clearLoop(reg, w, valueType, keyValueArray, i) ==
  IF i > Len(keyValueArray) \/ w.thrown # "none" THEN w
  ELSE clearLoop(reg, handleClearRemove(reg, w, valueType, keyValueArray[i].value),
                 valueType, keyValueArray, i + 1)

\* mutant: the alternate-key index is reset only when the clear is dispatched
cacheClearKeepsIndexUnlessDispatched(reg, w, valueType) ==
  LET c == w.cache
      r == LruMapClear(c.lruMap)
      w1 == [w EXCEPT !.cache.lruMap = r.m]
      w2 == [w1 EXCEPT !.cache.alternateKeyToKey = EmptyMap]
  IN  IF c.dispatchClearRemoves
      THEN wrapInTransactionEnd(reg,
             clearLoop(reg, wrapInTransactionBegin(reg, w2, valueType), valueType,
                       r.ret, 1),
             valueType)
      ELSE w1

cacheClear(reg, w, valueType) ==
  LET c == w.cache
      r == LruMapClear(c.lruMap)
      w1 == [w EXCEPT !.cache.lruMap = r.m, !.cache.alternateKeyToKey = EmptyMap]
  IN  IF c.dispatchClearRemoves
      THEN wrapInTransactionEnd(reg,
             clearLoop(reg, wrapInTransactionBegin(reg, w1, valueType), valueType,
                       r.ret, 1),
             valueType)
      ELSE w1

RECURSIVE setMaxSizeLoop(_, _, _, _, _)
setMaxSizeLoop(reg, w, valueType, keyValueArray, i) ==
  IF i > Len(keyValueArray) \/ w.thrown # "none" THEN w
  ELSE LET e == keyValueArray[i].value
           w1 == [w EXCEPT !.cache.alternateKeyToKey = unbindAll(@, e.alternateKeys),
                           !.evicted = Append(@, e.key)]
           w2 == IF w.cache.dispatchLruRemoves
                 THEN handleLruRemove(reg, w1, valueType, e) ELSE w1
       IN  setMaxSizeLoop(reg, w2, valueType, keyValueArray, i + 1)

cacheSetMaxSize(reg, w, valueType, newMaxSize) ==
  LET r == LruMapSetMaxSize(w.cache.lruMap, newMaxSize)
  IN  wrapInTransactionEnd(reg,
        setMaxSizeLoop(reg,
          wrapInTransactionBegin(reg, [w EXCEPT !.cache.lruMap = r.m], valueType),
          valueType, r.ret, 1),
        valueType)

\* mutant: every retrieval makes a new cache
getCacheAlwaysNew(caches, valueType) == MapPut(caches, valueType, NewLruCache)

\* getCache: caches is valueTypeToCache; the cache returned is the one the
\* resulting registry holds for valueType
getCache(caches, valueType) ==
  IF valueType \in DOMAIN caches THEN caches
  ELSE MapPut(caches, valueType, NewLruCache)

\* valueTypeToCache.forEach(cache => cache.clear()): keys holds the value
\* types in the insertion order of the Map; the result is [caches, w]
RECURSIVE clearAllLoop(_, _, _, _, _)
clearAllLoop(reg, caches, w, keys, i) ==
  IF i > Len(keys) \/ w.thrown # "none" THEN [caches |-> caches, w |-> w]
  ELSE LET w1 == cacheClear(reg, [w EXCEPT !.cache = caches[keys[i]]], keys[i])
       IN  clearAllLoop(reg, [caches EXCEPT ![keys[i]] = w1.cache], w1, keys, i + 1)

\* mutant: the caches are cleared one by one, with no transaction around them
clearAllCachesNoTransaction(reg, caches, keys, w) ==
  clearAllLoop(reg, caches, w, keys, 1)

\* clearAllCaches; the result is [caches, w]
clearAllCaches(reg, caches, keys, w) ==
  LET r == clearAllLoop(reg, caches, cacheTransactionBegin(w), keys, 1)
  IN  [caches |-> r.caches, w |-> cacheTransactionEnd(reg, r.w)]

\* getEntries: the entries, oldest first
getEntries(c) == [i \in 1..Len(LruMapMap(c.lruMap)) |-> LruMapMap(c.lruMap)[i].value]

\* ------------------------------------------------------------------------
\* State
\* ------------------------------------------------------------------------
VARIABLES
  lruMap,    \* a standalone LruMap, used as the LruMap tests use it
  mapRef,    \* reference model of lruMap: its keys, least recently touched first
  mapLast,   \* the last LruMap call: [op, key, ret, pre, preRef]
  valueTypeToCache,                     \* getCache registry: type -> cache
  nextHandlerKey,
  keyToChangedHandler,                  \* handler key -> [valueTypes, isActive, throws]
  valueTypeToActiveChangeHandlerKeys,   \* type -> handler keys, insertion order
  allTypesActiveChangeHandlerKeys,      \* handler keys, insertion order
  transactionChangeObject,              \* << >> (null) or <<record>>
  changeOrder,
  runningTransactions,
  handleChanges,
  openCallbacks,     \* cacheTransaction(callback) calls whose callback is running
  pendingPromises,   \* promises handed to cacheTransaction and not yet settled
  unregisteredHandlers,   \* handler key -> the handler object, after unregister()
  valueTypeToCacheKeys,   \* the keys of valueTypeToCache in insertion order
  asyncCalls,        \* the setAsync / setAllAsync calls so far, in call order:
                     \* [op, valueType, items, promise]
  entryGetterKind,   \* the entry getter of the cache of type T1: Null or "async"
  keyToPromise,      \* the memo of that cache: requested key -> pending awaitable
  getterPromises,    \* the awaitables the entry getter has returned, in call order:
                     \* [key, state, value, waiters]
  nCalls,            \* the number of invocations of the entry getter
  lastGet,           \* the awaitable the last get has returned: << >> or <<index>>
  last       \* the last LruCache call:
             \* [op, valueType, key, items, ret, thrown, applied, evicted, log]

mapVars == <<lruMap, mapRef, mapLast>>

registryVars == <<nextHandlerKey, keyToChangedHandler,
                  valueTypeToActiveChangeHandlerKeys, allTypesActiveChangeHandlerKeys>>

aggregatorVars == <<openCallbacks, pendingPromises,
                   transactionChangeObject, changeOrder, runningTransactions, handleChanges>>

cacheVars == <<valueTypeToCache, last>>

\* state outside of the module variables of LruCache.js: the handles the
\* caller holds, the iteration order of a Map, the timers of the event loop
getterVars == <<entryGetterKind, keyToPromise, getterPromises, nCalls, lastGet>>

runtimeVars == <<unregisteredHandlers, valueTypeToCacheKeys, asyncCalls, getterVars>>

vars == <<mapVars, registryVars, aggregatorVars, cacheVars, runtimeVars>>

Reg ==
  [keyToChangedHandler |-> keyToChangedHandler,
   valueTypeToActiveChangeHandlerKeys |-> valueTypeToActiveChangeHandlerKeys,
   allTypesActiveChangeHandlerKeys |-> allTypesActiveChangeHandlerKeys]

World(t) ==
  NewWorld(valueTypeToCache[t], transactionChangeObject, changeOrder,
           runningTransactions, handleChanges)

\* ------------------------------------------------------------------------
\* Input domains
\* ------------------------------------------------------------------------
ValueTypes == {"T1"}

NoAlt == [kind |-> "none"]

AltString(s) == [kind |-> "string", str |-> s]

AltArray(a) == [kind |-> "array", arr |-> a]

AltInputs == {NoAlt, AltString("a1"), AltArray(<<"k2">>), AltArray(<<"a1", "k2">>)}

LookupKeys == Keys \cup {"a1"}

Item(k, v, a) == [key |-> k, value |-> v, alternateKeys |-> a]

Items == {Item(k, v, a) : k \in Keys, v \in Values, a \in AltInputs}

BatchItems == {Item("k2", "v1", AltString("a1")), Item("k3", "v2", AltString("a1"))}

Batches == UNION {[1..n -> BatchItems] : n \in 0..MaxBatch}

\* ------------------------------------------------------------------------
\* Initial state
\* ------------------------------------------------------------------------
NoCall == [op |-> "none", key |-> Null, ret |-> << >>,
           pre |-> NewLruMap(0), preRef |-> << >>]

NoCacheCall ==
  [op |-> "none", valueType |-> Null, key |-> Null, items |-> << >>, ret |-> << >>,
   thrown |-> "none", handlerError |-> << >>, applied |-> 0, evicted |-> << >>,
   log |-> << >>]

InitRest ==
  /\ valueTypeToCache = EmptyMap
  /\ nextHandlerKey = 0
  /\ keyToChangedHandler = EmptyMap
  /\ valueTypeToActiveChangeHandlerKeys = EmptyMap
  /\ allTypesActiveChangeHandlerKeys = << >>
  /\ transactionChangeObject = << >>
  /\ changeOrder = 0
  /\ runningTransactions = 0
  /\ handleChanges = TRUE
  /\ openCallbacks = 0
  /\ pendingPromises = 0
  /\ unregisteredHandlers = EmptyMap
  /\ valueTypeToCacheKeys = << >>
  /\ asyncCalls = << >>
  /\ entryGetterKind = Null
  /\ keyToPromise = EmptyMap
  /\ getterPromises = << >>
  /\ nCalls = 0
  /\ lastGet = << >>
  /\ last = NoCacheCall

InitMap ==
  /\ \E n \in 0..MaxSizeArg : lruMap = NewLruMap(n)
  /\ mapRef = << >>
  /\ mapLast = NoCall
  /\ InitRest

Init ==
  /\ lruMap = NewLruMap(0)
  /\ mapRef = << >>
  /\ mapLast = NoCall
  /\ InitRest

\* ------------------------------------------------------------------------
\* Specification SpecMap: the LruMap on its own
\* ------------------------------------------------------------------------
\* the reference model drops its least recently touched keys down to the limit
RefShrink(s, limit) ==
  IF limit = NoLimit \/ Len(s) <= limit THEN s
  ELSE SubSeq(s, Len(s) - limit + 1, Len(s))

MapCall(op, key, ret) ==
  [op |-> op, key |-> key, ret |-> ret, pre |-> lruMap, preRef |-> mapRef]

MapSet(key, value) ==
  LET r == LruMapSet(lruMap, key, value)
  IN  /\ lruMap' = r.m
      /\ mapRef' = RefShrink(Touch(mapRef, key), lruMap.sizeLimit)
      /\ mapLast' = MapCall("set", key, r.ret)
      /\ UNCHANGED <<registryVars, aggregatorVars, cacheVars, runtimeVars>>

MapGet(key) ==
  LET r == LruMapGet(lruMap, key)
  IN  /\ lruMap' = r.m
      /\ mapRef' = IF key \in SeqToSet(mapRef) THEN Touch(mapRef, key) ELSE mapRef
      /\ mapLast' = MapCall("get", key, r.ret)
      /\ UNCHANGED <<registryVars, aggregatorVars, cacheVars, runtimeVars>>

MapGetWithoutLruChange(key) ==
  LET r == LruMapGetWithoutLruChange(lruMap, key)
  IN  /\ lruMap' = r.m
      /\ mapRef' = mapRef
      /\ mapLast' = MapCall("getWithoutLruChange", key, r.ret)
      /\ UNCHANGED <<registryVars, aggregatorVars, cacheVars, runtimeVars>>

MapDelete(key) ==
  LET r == LruMapDelete(lruMap, key)
  IN  /\ lruMap' = r.m
      /\ mapRef' = SeqWithout(mapRef, key)
      /\ mapLast' = MapCall("delete", key, <<r.ret>>)
      /\ UNCHANGED <<registryVars, aggregatorVars, cacheVars, runtimeVars>>

MapSetMaxSize(n) ==
  LET r == LruMapSetMaxSize(lruMap, n)
  IN  /\ lruMap' = r.m
      /\ mapRef' = RefShrink(mapRef, IF n < 1 THEN NoLimit ELSE n)
      /\ mapLast' = MapCall("setMaxSize", Null, r.ret)
      /\ UNCHANGED <<registryVars, aggregatorVars, cacheVars, runtimeVars>>

MapClear ==
  LET r == LruMapClear(lruMap)
  IN  /\ lruMap' = r.m
      /\ mapRef' = << >>
      /\ mapLast' = MapCall("clear", Null, r.ret)
      /\ UNCHANGED <<registryVars, aggregatorVars, cacheVars, runtimeVars>>

NextMap ==
  \/ \E k \in Keys, v \in Values : MapSet(k, v)
  \/ \E k \in Keys : MapGet(k)
  \/ \E k \in Keys : MapGetWithoutLruChange(k)
  \/ \E k \in Keys : MapDelete(k)
  \/ \E n \in -1..MaxSizeArg : MapSetMaxSize(n)
  \/ MapClear

SpecMap == InitMap /\ [][NextMap]_vars

\* ------------------------------------------------------------------------
\* Specification Spec: one LruCache, no listener registered
\* ------------------------------------------------------------------------
CacheCall(op, t, key, items, ret, w) ==
  [op |-> op, valueType |-> t, key |-> key, items |-> items, ret |-> ret,
   thrown |-> w.thrown, handlerError |-> w.handlerError, applied |-> w.applied,
   evicted |-> w.evicted, log |-> w.log]

Commit(t, w) ==
  /\ valueTypeToCache' = [valueTypeToCache EXCEPT ![t] = w.cache]
  /\ transactionChangeObject' = w.tco
  /\ changeOrder' = w.changeOrder
  /\ runningTransactions' = w.runningTransactions
  /\ handleChanges' = w.handleChanges
  /\ UNCHANGED <<openCallbacks, pendingPromises>>

GetCache(t) ==
  /\ valueTypeToCache' = getCache(valueTypeToCache, t)
  /\ valueTypeToCacheKeys' = SetAdd(valueTypeToCacheKeys, t)
  /\ last' = [NoCacheCall EXCEPT !.op = "getCache", !.valueType = t]
  /\ UNCHANGED <<mapVars, registryVars, aggregatorVars, unregisteredHandlers, asyncCalls,
                 getterVars>>

CacheSetAll(t, items) ==
  /\ t \in DOMAIN valueTypeToCache
  /\ \E w \in {setAll(Reg, World(t), t, items)} :
         /\ Commit(t, w)
         /\ last' = CacheCall("setAll", t, Null, items, << >>, w)
  /\ UNCHANGED <<mapVars, runtimeVars, registryVars>>

\* LruCache.set is setAll([keyValueAlternateKeys])
CacheSet(t, item) ==
  /\ t \in DOMAIN valueTypeToCache
  /\ \E w \in {setAll(Reg, World(t), t, <<item>>)} :
         /\ Commit(t, w)
         /\ last' = CacheCall("set", t, item.key, <<item>>, << >>, w)
  /\ UNCHANGED <<mapVars, runtimeVars, registryVars>>

CacheGet(t, k) ==
  /\ t \in DOMAIN valueTypeToCache
  /\ \E r \in {cacheGet(valueTypeToCache[t], k)} :
         /\ valueTypeToCache' = [valueTypeToCache EXCEPT ![t] = r.cache]
         /\ last' = [NoCacheCall EXCEPT !.op = "get", !.valueType = t, !.key = k,
                                        !.ret = r.ret]
  /\ UNCHANGED <<mapVars, runtimeVars, registryVars, aggregatorVars>>

CacheGetWithoutLruChange(t, k) ==
  /\ t \in DOMAIN valueTypeToCache
  /\ \E r \in {cacheGetWithoutLruChange(valueTypeToCache[t], k)} :
         /\ valueTypeToCache' = [valueTypeToCache EXCEPT ![t] = r.cache]
         /\ last' = [NoCacheCall EXCEPT !.op = "getWithoutLruChange", !.valueType = t,
                                        !.key = k, !.ret = r.ret]
  /\ UNCHANGED <<mapVars, runtimeVars, registryVars, aggregatorVars>>

CacheDelete(t, k) ==
  /\ t \in DOMAIN valueTypeToCache
  /\ \E r \in {cacheDelete(Reg, World(t), t, k)} :
         /\ Commit(t, r.w)
         /\ last' = CacheCall("delete", t, k, << >>, <<r.ret>>, r.w)
  /\ UNCHANGED <<mapVars, runtimeVars, registryVars>>

CacheClear(t) ==
  /\ t \in DOMAIN valueTypeToCache
  /\ \E w \in {cacheClear(Reg, World(t), t)} :
         /\ Commit(t, w)
         /\ last' = CacheCall("clear", t, Null, << >>, << >>, w)
  /\ UNCHANGED <<mapVars, runtimeVars, registryVars>>

CacheSetMaxSize(t, n) ==
  /\ t \in DOMAIN valueTypeToCache
  /\ \E w \in {cacheSetMaxSize(Reg, World(t), t, n)} :
         /\ Commit(t, w)
         /\ last' = CacheCall("setMaxSize", t, Null, << >>, <<n>>, w)
  /\ UNCHANGED <<mapVars, runtimeVars, registryVars>>

Next ==
  \/ \E t \in ValueTypes : GetCache(t)
  \/ \E t \in ValueTypes, item \in Items : CacheSet(t, item)
  \/ \E t \in ValueTypes, items \in Batches : CacheSetAll(t, items)
  \/ \E t \in ValueTypes, k \in LookupKeys : CacheGet(t, k)
  \/ \E t \in ValueTypes, k \in LookupKeys : CacheGetWithoutLruChange(t, k)
  \/ \E t \in ValueTypes, k \in LookupKeys : CacheDelete(t, k)
  \/ \E t \in ValueTypes : CacheClear(t)
  \/ \E t \in ValueTypes, n \in -1..MaxSizeArg : CacheSetMaxSize(t, n)

Spec == Init /\ [][Next]_vars

\* ------------------------------------------------------------------------
\* Specification SpecEvents: one LruCache with registered listeners
\* ------------------------------------------------------------------------
\* changedHandlerThrows: whether the registered function throws when called
registerCacheChangedHandler(changedHandlerThrows, valueTypes) ==
  /\ nextHandlerKey < MaxHandlers
  /\ \E reg \in {addToActiveHandlerKeys(Reg, nextHandlerKey, valueTypes)} :
       /\ valueTypeToActiveChangeHandlerKeys' = reg.valueTypeToActiveChangeHandlerKeys
       /\ allTypesActiveChangeHandlerKeys' = reg.allTypesActiveChangeHandlerKeys
  /\ keyToChangedHandler' =
       MapPut(keyToChangedHandler, nextHandlerKey,
              [valueTypes |-> valueTypes, isActive |-> TRUE,
               throws |-> changedHandlerThrows, mutates |-> FALSE])
  /\ nextHandlerKey' = nextHandlerKey + 1
  /\ last' = [NoCacheCall EXCEPT !.op = "register"]
  /\ UNCHANGED <<mapVars, runtimeVars, aggregatorVars, valueTypeToCache>>

\* the handler object with this key: the registry holds it, or only the
\* caller does, after unregister()
HasHandle(key) == key \in (DOMAIN keyToChangedHandler) \cup (DOMAIN unregisteredHandlers)

handlerOf(key) ==
  IF key \in DOMAIN keyToChangedHandler
  THEN keyToChangedHandler[key] ELSE unregisteredHandlers[key]

\* handler.isActive = newValue
SetIsActive(key, newValue) ==
  /\ keyToChangedHandler' =
       IF key \in DOMAIN keyToChangedHandler
       THEN [keyToChangedHandler EXCEPT ![key].isActive = newValue]
       ELSE keyToChangedHandler
  /\ unregisteredHandlers' =
       IF key \in DOMAIN unregisteredHandlers
       THEN [unregisteredHandlers EXCEPT ![key].isActive = newValue]
       ELSE unregisteredHandlers

\* handler.deactivate() on a handle registerCacheChangedHandler has returned
HandlerDeactivate(key) ==
  /\ HasHandle(key)
  /\ \E reg \in {removeFromActiveHandlerKeys(Reg, key, handlerOf(key).valueTypes)} :
       /\ valueTypeToActiveChangeHandlerKeys' = reg.valueTypeToActiveChangeHandlerKeys
       /\ allTypesActiveChangeHandlerKeys' = reg.allTypesActiveChangeHandlerKeys
  /\ SetIsActive(key, FALSE)
  /\ last' = [NoCacheCall EXCEPT !.op = "deactivate"]
  /\ UNCHANGED <<mapVars, aggregatorVars, valueTypeToCache, nextHandlerKey,
                 valueTypeToCacheKeys, asyncCalls, getterVars>>

\* handler.activate()
HandlerActivate(key) ==
  /\ HasHandle(key)
  /\ \E reg \in {addToActiveHandlerKeys(Reg, key, handlerOf(key).valueTypes)} :
       /\ valueTypeToActiveChangeHandlerKeys' = reg.valueTypeToActiveChangeHandlerKeys
       /\ allTypesActiveChangeHandlerKeys' = reg.allTypesActiveChangeHandlerKeys
  /\ SetIsActive(key, TRUE)
  /\ last' = [NoCacheCall EXCEPT !.op = "activate"]
  /\ UNCHANGED <<mapVars, aggregatorVars, valueTypeToCache, nextHandlerKey,
                 valueTypeToCacheKeys, asyncCalls, getterVars>>

\* handler.unregister()
HandlerUnregister(key) ==
  /\ HasHandle(key)
  /\ \E reg \in {removeFromActiveHandlerKeys(Reg, key, handlerOf(key).valueTypes)} :
       /\ valueTypeToActiveChangeHandlerKeys' = reg.valueTypeToActiveChangeHandlerKeys
       /\ allTypesActiveChangeHandlerKeys' = reg.allTypesActiveChangeHandlerKeys
  /\ keyToChangedHandler' = MapRemove(keyToChangedHandler, key)
  /\ unregisteredHandlers' = MapPut(unregisteredHandlers, key, handlerOf(key))
  /\ last' = [NoCacheCall EXCEPT !.op = "unregister"]
  /\ UNCHANGED <<mapVars, aggregatorVars, valueTypeToCache, nextHandlerKey,
                 valueTypeToCacheKeys, asyncCalls, getterVars>>

\* handler.isRegistered()
isRegistered(key) == key \in DOMAIN keyToChangedHandler

\* LruCache.dispatchLruRemoves(newValue)
CacheDispatchLruRemoves(t, newValue) ==
  /\ t \in DOMAIN valueTypeToCache
  /\ valueTypeToCache' = [valueTypeToCache EXCEPT ![t].dispatchLruRemoves = newValue]
  /\ last' = [NoCacheCall EXCEPT !.op = "dispatchLruRemoves", !.valueType = t]
  /\ UNCHANGED <<mapVars, runtimeVars, registryVars, aggregatorVars>>

Filters == {FilterNull, FilterString("T1")}

EventItems == {Item("k1", "v1", NoAlt), Item("k1", "v2", AltString("a1")),
               Item("k2", "v1", AltString("a1")), Item("k3", "v2", NoAlt)}

EventBatches == UNION {[1..n -> EventItems] : n \in 0..MaxBatch}

NextEvents ==
  \/ \E t \in ValueTypes : GetCache(t)
  \/ \E f \in Filters : registerCacheChangedHandler(FALSE, f)
  \/ \E h \in 0..(MaxHandlers - 1) : HandlerDeactivate(h)
  \/ \E t \in ValueTypes : CacheDispatchLruRemoves(t, TRUE)
  \/ \E t \in ValueTypes, items \in EventBatches : CacheSetAll(t, items)
  \/ \E t \in ValueTypes : CacheSetMaxSize(t, 2)

SpecEvents == Init /\ [][NextEvents]_vars

\* ------------------------------------------------------------------------
\* Specification SpecTx: cacheTransaction with a callback or a promise, and
\* cache operations inside and outside of open transactions.  The callback
\* of cacheTransaction runs synchronously, so the open callbacks are nested
\* and no promise settles while one of them is running.
\* ------------------------------------------------------------------------
\* the aggregator state, for the steps that are not made on a cache
AggregatorWorld ==
  NewWorld(NewLruCache, transactionChangeObject, changeOrder, runningTransactions,
           handleChanges)

CommitAggregator(w) ==
  /\ transactionChangeObject' = w.tco
  /\ changeOrder' = w.changeOrder
  /\ runningTransactions' = w.runningTransactions
  /\ handleChanges' = w.handleChanges

\* cacheTransaction(callback) is entered: lines 160-165, then the callback runs
TxCallbackBegin ==
  /\ openCallbacks + pendingPromises < MaxOpen
  /\ CommitAggregator(cacheTransactionBegin(AggregatorWorld))
  /\ openCallbacks' = openCallbacks + 1
  /\ last' = [NoCacheCall EXCEPT !.op = "callbackBegin"]
  /\ UNCHANGED <<mapVars, runtimeVars, registryVars, valueTypeToCache, pendingPromises>>

\* the innermost callback returns or throws: the finally block of lines 184-195
TxCallbackEnd(threw) ==
  /\ openCallbacks > 0
  /\ \E w \in {cacheTransactionEnd(Reg,
                 [AggregatorWorld EXCEPT !.thrown = IF threw THEN "work" ELSE "none"])} :
         /\ CommitAggregator(w)
         /\ last' = CacheCall("callbackEnd", Null, Null, << >>, << >>, w)
  /\ openCallbacks' = openCallbacks - 1
  /\ UNCHANGED <<mapVars, runtimeVars, registryVars, valueTypeToCache, pendingPromises>>

\* cacheTransaction(promise): lines 160-179
TxPromiseBegin ==
  /\ openCallbacks + pendingPromises < MaxOpen
  /\ CommitAggregator(cacheTransactionBegin(AggregatorWorld))
  /\ pendingPromises' = pendingPromises + 1
  /\ last' = [NoCacheCall EXCEPT !.op = "promiseBegin"]
  /\ UNCHANGED <<mapVars, runtimeVars, registryVars, valueTypeToCache, openCallbacks>>

\* a pending promise is fulfilled or rejected; its finally callback runs
\* when no synchronous code is running
TxPromiseSettle(rejected) ==
  /\ pendingPromises > 0
  /\ openCallbacks = 0
  /\ \E w \in {promiseFinally(Reg,
                 [AggregatorWorld EXCEPT !.thrown = IF rejected THEN "rejected" ELSE "none"])} :
         /\ CommitAggregator(w)
         /\ last' = CacheCall("promiseSettle", Null, Null, << >>, << >>, w)
  /\ pendingPromises' = pendingPromises - 1
  /\ UNCHANGED <<mapVars, runtimeVars, registryVars, valueTypeToCache, openCallbacks>>

\* LruCache.dispatchClearRemoves(newValue)
CacheDispatchClearRemoves(t, newValue) ==
  /\ t \in DOMAIN valueTypeToCache
  /\ valueTypeToCache' = [valueTypeToCache EXCEPT ![t].dispatchClearRemoves = newValue]
  /\ last' = [NoCacheCall EXCEPT !.op = "dispatchClearRemoves", !.valueType = t]
  /\ UNCHANGED <<mapVars, runtimeVars, registryVars, aggregatorVars>>

TxValueTypes == {"T1", "T2"}

TxItem == Item("k1", "v1", NoAlt)

\* a cache operation may record one more event
TxRoom == changeOrder < MaxTxEvents

NextTx ==
  \/ \E t \in TxValueTypes : GetCache(t)
  \/ /\ nextHandlerKey < MaxTxHandlers
     /\ \E th \in BOOLEAN, f \in Filters : registerCacheChangedHandler(th, f)
  \/ TxCallbackBegin
  \/ \E threw \in BOOLEAN : TxCallbackEnd(threw)
  \/ TxPromiseBegin
  \/ \E rejected \in BOOLEAN : TxPromiseSettle(rejected)
  \/ \E t \in TxValueTypes : TxRoom /\ CacheSet(t, TxItem)
  \/ TxRoom /\ CacheDelete("T1", "k1")
  \/ TxRoom /\ CacheClear("T1")
  \/ CacheDispatchClearRemoves("T1", TRUE)

SpecTx == Init /\ [][NextTx]_vars

\* ------------------------------------------------------------------------
\* Specification SpecDispatch: single operations of one LruCache whose
\* listeners may throw
\* ------------------------------------------------------------------------
DispatchItems == {Item("k1", "v1", NoAlt), Item("k2", "v2", AltString("a1"))}

DispatchBatch == <<Item("k1", "v2", NoAlt), Item("k2", "v2", AltString("a1"))>>

NextDispatch ==
  \/ GetCache("T1")
  \/ \E th \in BOOLEAN, f \in Filters : registerCacheChangedHandler(th, f)
  \/ \E h \in 0..(MaxHandlers - 1) : HandlerDeactivate(h)
  \/ \E item \in DispatchItems : CacheSet("T1", item)
  \/ CacheSetAll("T1", DispatchBatch)
  \/ \E k \in {"k1", "a1"} : CacheDelete("T1", k)
  \/ CacheClear("T1")
  \/ CacheSetMaxSize("T1", 1)
  \/ CacheDispatchLruRemoves("T1", TRUE)
  \/ CacheDispatchClearRemoves("T1", TRUE)

SpecDispatch == Init /\ [][NextDispatch]_vars

\* ------------------------------------------------------------------------
\* Observations used by the properties
\* ------------------------------------------------------------------------
Caches == DOMAIN valueTypeToCache

LiveKeys(c) == DOMAIN c.lruMap.keyToEntry

EntryOf(c, k) == c.lruMap.keyToEntry[k].value

\* the primary keys in traversal order (forEach / map / getEntries), oldest first
Order(c) == LruMapKeys(c.lruMap)

\* what a lookup without LRU change finds: << >> or <<entry>>
Lookup(c, k) == entryGetter(c, k, "getWithoutLruChange").ret

\* the set of alternate keys an alternateKeys argument denotes
AltSetOf(item) ==
  IF item.alternateKeys.kind = "array" THEN SeqToSet(item.alternateKeys.arr)
  ELSE IF item.alternateKeys.kind = "string" THEN {item.alternateKeys.str}
  ELSE {}

\* an alternate key of the item is bound to another primary key in index idx
BoundElsewhere(idx, item) ==
  \E a \in AltSetOf(item) : a \in DOMAIN idx /\ idx[a] # item.key

LastCache == valueTypeToCache[last.valueType]

\* ------------------------------------------------------------------------
\* C1: with a bounded maxSize >= 1, after any sequence of calls
\* getSize() <= getMaxSize(), and getSize() is the number of live entries
\* (the entries the traversal enumerates, each key once).
\* ------------------------------------------------------------------------
C1_SizeWithinMaxSize ==
  \A t \in Caches :
    LET c == valueTypeToCache[t]
    IN  /\ getMaxSize(c.lruMap) # NoLimit => getSize(c.lruMap) <= getMaxSize(c.lruMap)
        /\ getSize(c.lruMap) = Len(getEntries(c))
        /\ getSize(c.lruMap) = Cardinality(SeqToSet(Order(c)))

\* a set into a full cache has just evicted an entry
C1_Witness ==
  /\ last.op = "set"
  /\ Len(last.evicted) = 1
  /\ getSize(LastCache.lruMap) = getMaxSize(LastCache.lruMap)

\* ------------------------------------------------------------------------
\* C2: when LruMap.set inserts a new key into a map that already holds
\* maxSize entries, exactly one entry is evicted, it is the least recently
\* touched one (the head of the reference sequence), and set returns it; in
\* every other case nothing is evicted and set returns null.
\* ------------------------------------------------------------------------
C2_SetEvictsLeastRecentlyTouched ==
  mapLast.op = "set" =>
    LET pre == mapLast.pre
        preKeys == DOMAIN pre.keyToEntry
        full == pre.sizeLimit # NoLimit /\ Cardinality(preKeys) = pre.sizeLimit
        lru == Head(mapLast.preRef)
    IN  IF mapLast.key \notin preKeys /\ full
        THEN /\ mapLast.ret = <<[key |-> lru, value |-> pre.keyToEntry[lru].value]>>
             /\ DOMAIN lruMap.keyToEntry = (preKeys \ {lru}) \cup {mapLast.key}
        ELSE /\ mapLast.ret = << >>
             /\ DOMAIN lruMap.keyToEntry = preKeys \cup {mapLast.key}

\* a set evicted an entry that was not the first one inserted into the list
C2_Witness ==
  /\ mapLast.op = "set"
  /\ mapLast.ret # << >>
  /\ Len(mapLast.preRef) = 2
  /\ mapLast.pre.sizeLimit = 2

\* ------------------------------------------------------------------------
\* C3: the traversal order agrees with a reference model that keeps a
\* sequence of keys and moves a key to the end on every touch (insert,
\* update by set, get by primary or alternate key).  RefAfter is the
\* reference model's sequence after the call recorded in last', given its
\* sequence ref before the call.
\* ------------------------------------------------------------------------
RECURSIVE RefSetAll(_, _, _, _)
RefSetAll(ref, items, n, limit) ==
  IF n = 0 THEN ref
  ELSE RefShrink(Touch(RefSetAll(ref, items, n - 1, limit), items[n].key), limit)

RefResolve(idx, ref, k) ==
  IF k \in SeqToSet(ref) THEN k
  ELSE IF k \in DOMAIN idx /\ idx[k] \in SeqToSet(ref) THEN idx[k]
  ELSE Null

RefAfter(ref, idx, limit, call) ==
  CASE call.op \in {"set", "setAll"} -> RefSetAll(ref, call.items, call.applied, limit)
    [] call.op = "get" ->
         IF RefResolve(idx, ref, call.key) = Null THEN ref
         ELSE Touch(ref, RefResolve(idx, ref, call.key))
    [] call.op = "delete" -> SeqWithout(ref, RefResolve(idx, ref, call.key))
    [] call.op = "clear" -> << >>
    [] call.op = "setMaxSize" ->
         RefShrink(ref, IF call.ret[1] < 1 THEN NoLimit ELSE call.ret[1])
    [] OTHER -> ref

StepAgreesWithReference ==
  \A t \in Caches :
    last'.valueType = t =>
      Order(valueTypeToCache[t])' =
        RefAfter(Order(valueTypeToCache[t]), valueTypeToCache[t].alternateKeyToKey,
                 valueTypeToCache[t].lruMap.sizeLimit, last')

\* C3 as stated: every call moves the traversal order as the reference model does
C3_OrderAgreesWithReference == [][StepAgreesWithReference]_vars

\* the same, for every call but a set / setAll rejected with a conflict
C3_AgreesUnlessRejected ==
  [][last'.thrown # "conflict" => StepAgreesWithReference]_vars

\* ------------------------------------------------------------------------
\* C4: getWithoutLruChange(k) leaves the whole cache unchanged: entries,
\* values, alternate-key bindings and traversal order.
\* ------------------------------------------------------------------------
C4_GetWithoutLruChangeFrame ==
  [][last'.op = "getWithoutLruChange" => valueTypeToCache' = valueTypeToCache]_vars

\* a hit by alternate key on an entry that is not the newest
C4_Witness ==
  /\ last.op = "getWithoutLruChange"
  /\ last.key = "a1"
  /\ last.ret # << >>
  /\ LastCache.alternateKeyToKey["a1"] # LastCache.lruMap.newest

\* ------------------------------------------------------------------------
\* C5: immediately after a successful set({key, value, alternateKeys: A}),
\* get(key) returns value and get(alt) returns value for every alt in A.
\* ------------------------------------------------------------------------
C5_SetGetRoundTrip ==
  (last.op = "set" /\ last.thrown = "none") =>
     LET item == last.items[1]
     IN  /\ cacheGet(LastCache, item.key).ret = <<item.value>>
         /\ \A a \in AltSetOf(item) : cacheGet(LastCache, a).ret = <<item.value>>

\* the round trip, for alternate keys that are no live primary key of another entry
C5_RoundTripWithoutCollision ==
  (last.op = "set" /\ last.thrown = "none") =>
     LET item == last.items[1]
     IN  /\ cacheGet(LastCache, item.key).ret = <<item.value>>
         /\ \A a \in AltSetOf(item) \ (LiveKeys(LastCache) \ {item.key}) :
               cacheGet(LastCache, a).ret = <<item.value>>

\* ------------------------------------------------------------------------
\* C6: for every live entry e, looking up e.key resolves to e, and looking
\* up any alternate key of e resolves to e.
\* ------------------------------------------------------------------------
C6_KeysResolveToEntry ==
  \A t \in Caches :
    LET c == valueTypeToCache[t]
    IN  \A k \in LiveKeys(c) :
          /\ Lookup(c, k) = <<EntryOf(c, k)>>
          /\ EntryOf(c, k).key = k
          /\ \A a \in EntryOf(c, k).alternateKeys : Lookup(c, a) = <<EntryOf(c, k)>>

\* the same, for alternate keys that are no live primary key of another entry
C6_ResolveWithoutCollision ==
  \A t \in Caches :
    LET c == valueTypeToCache[t]
    IN  \A k \in LiveKeys(c) :
          /\ Lookup(c, k) = <<EntryOf(c, k)>>
          /\ EntryOf(c, k).key = k
          /\ \A a \in EntryOf(c, k).alternateKeys \ (LiveKeys(c) \ {k}) :
                Lookup(c, a) = <<EntryOf(c, k)>>

\* ------------------------------------------------------------------------
\* C7: no string is an alternate key of one entry and at the same time the
\* primary key or an alternate key of a different entry.
\* ------------------------------------------------------------------------
C7_AlternateKeysDisjoint ==
  \A t \in Caches :
    LET c == valueTypeToCache[t]
    IN  \A k1 \in LiveKeys(c), k2 \in LiveKeys(c) :
          k1 # k2 =>
            /\ k2 \notin EntryOf(c, k1).alternateKeys
            /\ EntryOf(c, k1).alternateKeys \cap EntryOf(c, k2).alternateKeys = {}

\* the part of C7 the conflict check enforces: alternate keys of different entries
C7_AlternateKeysPairwiseDisjoint ==
  \A t \in Caches :
    LET c == valueTypeToCache[t]
    IN  \A k1 \in LiveKeys(c), k2 \in LiveKeys(c) :
          k1 # k2 => EntryOf(c, k1).alternateKeys \cap EntryOf(c, k2).alternateKeys = {}

\* ------------------------------------------------------------------------
\* C8: set / setAll of an entry with an alternate key that is currently
\* bound to a different primary key fails with an alternate-key conflict;
\* binding an alternate key again to the primary key it is already bound to
\* succeeds (the call fails at its first entry exactly when one of that
\* entry's alternate keys is bound to another primary key).
\* ------------------------------------------------------------------------
C8_ConflictIffBoundElsewhere ==
  [][(last'.op \in {"set", "setAll"} /\ Len(last'.items) >= 1) =>
       (BoundElsewhere(valueTypeToCache[last'.valueType].alternateKeyToKey, last'.items[1])
          <=> (last'.thrown = "conflict" /\ last'.applied = 0))]_vars

\* a set was rejected: its alternate key a1 is bound to another primary key
C8_Witness ==
  /\ last.op = "set"
  /\ last.thrown = "conflict"
  /\ "a1" \in AltSetOf(last.items[1])
  /\ "a1" \in DOMAIN LastCache.alternateKeyToKey
  /\ LastCache.alternateKeyToKey["a1"] # last.key

\* the other case: a set that names a1 again for the key that holds it succeeded
C8_RebindCase ==
  /\ last.op = "set"
  /\ last.thrown = "none"
  /\ last.evicted = << >>
  /\ AltSetOf(last.items[1]) = {"a1"}
  /\ EntryOf(LastCache, last.key).alternateKeys = {"a1", "k2"}

\* ------------------------------------------------------------------------
\* C9: a single set that fails with an alternate-key conflict leaves the
\* cache in its pre-call state, recency order included.
\* ------------------------------------------------------------------------
C9_RejectedSetLeavesCacheUnchanged ==
  [][(last'.op = "set" /\ last'.thrown = "conflict") =>
        valueTypeToCache' = valueTypeToCache]_vars

\* what does hold: entries, values and bindings are unchanged, but not the order
C9_RejectedSetKeepsEntriesAndBindings ==
  [][(last'.op = "set" /\ last'.thrown = "conflict") =>
        LET c == valueTypeToCache[last'.valueType]
            d == valueTypeToCache'[last'.valueType]
        IN  /\ LiveKeys(d) = LiveKeys(c)
            /\ \A k \in LiveKeys(c) : EntryOf(d, k) = EntryOf(c, k)
            /\ d.alternateKeyToKey = c.alternateKeyToKey
            /\ d.lruMap.sizeLimit = c.lruMap.sizeLimit]_vars

\* ------------------------------------------------------------------------
\* C10: if setAll fails with an alternate-key conflict at its i-th entry,
\* the entries before i remain applied (values, alternate keys, evictions),
\* the i-th and later entries are not applied, and the interested listeners
\* receive one record holding exactly the events of the entries before i.
\* The cache and the handler invocations after the failed call are compared
\* with those of setAll on the entries before i alone, from the same state.
\* ------------------------------------------------------------------------
\* every active handler interested in t was invoked once, with the same record
OneRecordEach(reg, t, log, n) ==
  /\ \A h \in SeqToSet(getActiveHandlerKeys(reg, <<t>>)) :
        Cardinality({j \in 1..Len(log) : log[j].handler = h}) = 1
  /\ \A j \in 1..Len(log) :
        /\ log[j].record.valueTypes = <<t>>
        /\ Len(log[j].record.ev[t].inserts) = n

C10_FailedSetAllAppliesExactlyPrefix ==
  [][(last'.op = "setAll" /\ last'.thrown = "conflict") =>
        LET t == last'.valueType
            n == last'.applied
            ok == setAll(Reg, World(t), t, SubSeq(last'.items, 1, n))
        IN  /\ valueTypeToCache'[t] = ok.cache
            /\ n >= 1 => /\ last'.log = ok.log
                         /\ OneRecordEach(Reg, t, last'.log, n)]_vars

\* what does hold: the same, but for the traversal order of the live entries
C10_PrefixAppliedUpToOrder ==
  [][(last'.op = "setAll" /\ last'.thrown = "conflict") =>
        LET t == last'.valueType
            n == last'.applied
            ok == setAll(Reg, World(t), t, SubSeq(last'.items, 1, n))
            d == valueTypeToCache'[t]
        IN  /\ LiveKeys(d) = LiveKeys(ok.cache)
            /\ \A k \in LiveKeys(d) : EntryOf(d, k) = EntryOf(ok.cache, k)
            /\ d.alternateKeyToKey = ok.cache.alternateKeyToKey
            /\ last'.evicted = ok.evicted
            /\ n >= 1 => /\ last'.log = ok.log
                         /\ OneRecordEach(Reg, t, last'.log, n)]_vars

\* a setAll failed at its second entry, after an eviction, with listeners told
C10_FailedMidBatch ==
  /\ last.op = "setAll"
  /\ last.thrown = "conflict"
  /\ last.applied = 1
  /\ Len(last.evicted) = 1
  /\ Len(last.log) = 2

\* ------------------------------------------------------------------------
\* C11: a set on an existing primary key with alternate keys B replaces the
\* value and makes the entry's alternate keys the union of its previous
\* alternate keys and B; every alternate key the entry had stays bound to it.
\* ------------------------------------------------------------------------
C11_UpdateUnitesAlternateKeys ==
  [][(/\ last'.op = "set"
      /\ last'.thrown = "none"
      /\ last'.key \in LiveKeys(valueTypeToCache[last'.valueType])) =>
        LET c == valueTypeToCache[last'.valueType]
            d == valueTypeToCache'[last'.valueType]
            k == last'.key
            B == AltSetOf(last'.items[1])
        IN  /\ k \in LiveKeys(d)
            /\ EntryOf(d, k).value = last'.items[1].value
            /\ EntryOf(d, k).alternateKeys = EntryOf(c, k).alternateKeys \cup B
            /\ \A a \in EntryOf(c, k).alternateKeys :
                  /\ a \in DOMAIN c.alternateKeyToKey
                  /\ a \in DOMAIN d.alternateKeyToKey
                  /\ d.alternateKeyToKey[a] = k]_vars

\* an update with alternate key k2 of an entry that already had a1
C11_Witness ==
  /\ last.op = "set"
  /\ last.thrown = "none"
  /\ last.evicted = << >>
  /\ AltSetOf(last.items[1]) = {"k2"}
  /\ last.items[1].value = "v2"
  /\ EntryOf(LastCache, last.key).alternateKeys = {"a1", "k2"}
  /\ EntryOf(LastCache, last.key).value = "v2"

\* ------------------------------------------------------------------------
\* C12: getCache(v) returns the same cache for the same value type on every
\* call: a retrieval of an existing cache changes nothing of it (entries,
\* maxSize, dispatch flags, bindings), the cache it returns is the one the
\* registry holds, and no step removes a cache from the registry.
\* ------------------------------------------------------------------------
C12_GetCacheReturnsSameCache ==
  [][/\ \A t \in DOMAIN valueTypeToCache : t \in DOMAIN valueTypeToCache'
     /\ last'.op = "getCache" =>
          /\ last'.valueType \in DOMAIN valueTypeToCache'
          /\ \A t \in DOMAIN valueTypeToCache :
                valueTypeToCache'[t] = valueTypeToCache[t]]_vars

\* a later retrieval of a cache that holds entries, a maxSize and a flag
C12_Witness ==
  /\ last.op = "getCache"
  /\ LastCache.dispatchLruRemoves
  /\ getMaxSize(LastCache.lruMap) = 2
  /\ getSize(LastCache.lruMap) = 2

\* ------------------------------------------------------------------------
\* Observations of records and dispatches
\* ------------------------------------------------------------------------
Kinds == {"inserts", "clearRemoves", "lruRemoves", "deleteRemoves"}

\* the events of a record (<< >> for none, or <<record>>), each with its
\* value type and kind
EventsOf(r) ==
  IF r = << >> THEN {}
  ELSE UNION {{[valueType |-> t, kind |-> k, event |-> r[1].ev[t][k][i]] :
                  i \in 1..Len(r[1].ev[t][k])} :
              t \in SeqToSet(r[1].valueTypes), k \in Kinds}

\* a filter matches the value types V: it names all types (null or an empty
\* array) or one of the types of V
Matches(F, V) ==
  \/ F.kind = "null"
  \/ F.kind = "array" /\ F.arr = << >>
  \/ F.kind = "array" /\ SeqToSet(F.arr) \cap V # {}
  \/ F.kind = "string" /\ F.str \in V

\* the registered active handlers whose filter matches V
MatchingActive(V) ==
  {h \in DOMAIN keyToChangedHandler :
      /\ keyToChangedHandler[h].isActive
      /\ Matches(keyToChangedHandler[h].valueTypes, V)}

\* log holds one invocation of each handler of H, all with record rec
DispatchedOnce(log, H, rec) ==
  /\ {log[j].handler : j \in 1..Len(log)} = H
  /\ Len(log) = Cardinality(H)
  /\ \A j \in 1..Len(log) : log[j].record = rec

\* ------------------------------------------------------------------------
\* C13: the events recorded inside one cacheTransaction(work) are delivered
\* in exactly one invocation per matching active listener, after work has
\* completed: while a callback is running no listener is invoked and every
\* recorded event is kept, and when the outermost callback has ended each
\* matching active listener is invoked once with the record of all of them.
\* ------------------------------------------------------------------------
C13_OneDispatchAfterWork ==
  [][/\ openCallbacks' > 0 => last'.log = << >>
     /\ (openCallbacks > 0 /\ openCallbacks' > 0) =>
          EventsOf(transactionChangeObject) \subseteq EventsOf(transactionChangeObject')
     /\ (last'.op = "callbackEnd" /\ runningTransactions' = 0) =>
          DispatchedOnce(last'.log,
                         MatchingActive(SeqToSet(transactionChangeObject[1].valueTypes)),
                         transactionChangeObject[1])]_vars

\* a callback that made two changes has ended and a listener was told of both
C13_Witness ==
  /\ last.op = "callbackEnd"
  /\ Len(last.log) = 1
  /\ Cardinality(EventsOf(<<last.log[1].record>>)) = 2

\* ------------------------------------------------------------------------
\* C14: when transactions overlap (nested callbacks, or a callback or a
\* plain cache mutation started while a promise transaction is pending), no
\* dispatch happens until the last open transaction closes, and that single
\* dispatch holds the events of all of them: as long as a transaction stays
\* open no listener is invoked and the recorded events are kept, and the
\* step that closes the last one hands the accumulated record, once, to
\* every matching active listener.
\* ------------------------------------------------------------------------
C14_OverlappingTransactionsJoin ==
  [][/\ runningTransactions' = openCallbacks' + pendingPromises'
     /\ runningTransactions' > 0 =>
          /\ last'.log = << >>
          /\ EventsOf(transactionChangeObject) \subseteq EventsOf(transactionChangeObject')
     /\ (runningTransactions > 0 /\ runningTransactions' = 0) =>
          DispatchedOnce(last'.log,
                         MatchingActive(SeqToSet(transactionChangeObject[1].valueTypes)),
                         transactionChangeObject[1])]_vars

\* a promise transaction settles and delivers the two events of the cache
\* mutations that were made, each in its own transaction, while it was pending
C14_Witness ==
  /\ last.op = "promiseSettle"
  /\ Len(last.log) = 1
  /\ SeqToSet(last.log[1].record.valueTypes) = {"T1", "T2"}

\* an inner transaction has closed with events recorded and nothing was dispatched
C14_InnerClosed ==
  /\ last.op = "callbackEnd"
  /\ pendingPromises = 1
  /\ last.log = << >>
  /\ EventsOf(transactionChangeObject) # {}

\* ------------------------------------------------------------------------
\* C15: when no transaction is open, a single mutation that records an
\* event, by a cache with an interested active listener, has dispatched its
\* record to the listeners when the call returns: each matching active
\* listener was invoked once with a record of the cache's value type that
\* holds events, and the aggregator is idle again.
\* ------------------------------------------------------------------------
\* the call records an event: an entry set, an entry deleted, entries
\* cleared or evicted with the flag of their kind enabled (c: the cache before)
RecordsEvent(call, c) ==
  CASE call.op \in {"set", "setAll"} -> call.applied >= 1
    [] call.op = "delete" -> call.ret = <<TRUE>>
    [] call.op = "clear" -> c.dispatchClearRemoves /\ getSize(c.lruMap) > 0
    [] call.op = "setMaxSize" -> c.dispatchLruRemoves /\ call.evicted # << >>
    [] OTHER -> FALSE

C15_SingleMutationDispatchesBeforeReturn ==
  [][(/\ runningTransactions = 0
      /\ last'.valueType \in DOMAIN valueTypeToCache
      /\ RecordsEvent(last', valueTypeToCache[last'.valueType])
      /\ MatchingActive({last'.valueType}) # {}) =>
        /\ {last'.log[j].handler : j \in 1..Len(last'.log)} =
              MatchingActive({last'.valueType})
        /\ Len(last'.log) = Cardinality(MatchingActive({last'.valueType}))
        /\ \A j \in 1..Len(last'.log) :
              /\ last'.log[j].record.valueTypes = <<last'.valueType>>
              /\ EventsOf(<<last'.log[j].record>>) # {}
        /\ transactionChangeObject' = << >>
        /\ runningTransactions' = 0]_vars

\* a delete has returned true and both listeners have been told
C15_Witness ==
  /\ last.op = "delete"
  /\ last.ret = <<TRUE>>
  /\ Len(last.log) = 2
  /\ runningTransactions = 0

\* ------------------------------------------------------------------------
\* C16: within one record the order values of all events, over all value
\* types and kinds together, are pairwise distinct, are exactly 0..n-1 for
\* n events, and increase in the sequence in which the changes were made:
\* each list is in increasing order, and an event recorded by a later step
\* has a larger order than every event the record held before.
\* ------------------------------------------------------------------------
\* the places of the events of a record (<< >> or <<record>>)
Positions(r) ==
  IF r = << >> THEN {}
  ELSE UNION {{<<t, k, i>> : i \in 1..Len(r[1].ev[t][k])} :
              t \in SeqToSet(r[1].valueTypes), k \in Kinds}

OrderAt(r, p) == r[1].ev[p[1]][p[2]][p[3]].order

OrdersExact(r) ==
  /\ \A p \in Positions(r), q \in Positions(r) :
        p # q => OrderAt(r, p) # OrderAt(r, q)
  /\ {OrderAt(r, p) : p \in Positions(r)} = 0..(Cardinality(Positions(r)) - 1)
  /\ \A p \in Positions(r), q \in Positions(r) :
        (p[1] = q[1] /\ p[2] = q[2] /\ p[3] < q[3]) => OrderAt(r, p) < OrderAt(r, q)

\* record r2 keeps the events of r1 and gives the new ones larger orders
OrdersExtend(r1, r2) ==
  /\ Positions(r1) \subseteq Positions(r2)
  /\ \A p \in Positions(r1) : OrderAt(r2, p) = OrderAt(r1, p)
  /\ \A p \in Positions(r2) \ Positions(r1) :
        OrderAt(r2, p) >= Cardinality(Positions(r1))

C16_OrdersCountTheChanges ==
  [][/\ OrdersExact(transactionChangeObject')
     /\ \A j \in 1..Len(last'.log) : OrdersExact(<<last'.log[j].record>>)
     /\ transactionChangeObject' # << >> =>
          /\ OrdersExtend(transactionChangeObject, transactionChangeObject')
          /\ changeOrder' = Cardinality(Positions(transactionChangeObject'))]_vars

\* a record of two value types: an insert for T2, then a deleteRemove for T1
C16_Witness ==
  /\ Len(last.log) >= 1
  /\ last.log[1].record.valueTypes = <<"T2", "T1">>
  /\ Len(last.log[1].record.ev["T2"].inserts) = 1
  /\ last.log[1].record.ev["T2"].inserts[1].order = 0
  /\ Len(last.log[1].record.ev["T1"].deleteRemoves) = 1
  /\ last.log[1].record.ev["T1"].deleteRemoves[1].order = 1

\* ------------------------------------------------------------------------
\* C17: after the last open transaction has closed the aggregator is idle,
\* on every exit path (work returned or threw, the promise was fulfilled or
\* rejected, a handler threw during the dispatch): runningTransactions = 0,
\* no accumulator and order counter 0; the counter of open transactions is
\* the number of running callbacks and pending promises.
\* ------------------------------------------------------------------------
C17_AggregatorIdleAfterClose ==
  /\ runningTransactions = openCallbacks + pendingPromises
  /\ handleChanges = TRUE
  /\ runningTransactions = 0 =>
       /\ transactionChangeObject = << >>
       /\ changeOrder = 0

\* a rejected promise has settled, its dispatch delivered an event and the
\* handler threw
C17_Witness ==
  /\ last.op = "promiseSettle"
  /\ last.thrown = "handler"
  /\ runningTransactions = 0
  /\ Len(last.log) = 1
  /\ EventsOf(<<last.log[1].record>>) # {}

\* the other exit paths: the work of the outermost callback threw
C17_WorkThrew ==
  /\ last.op = "callbackEnd"
  /\ last.thrown = "work"
  /\ runningTransactions = 0
  /\ Len(last.log) = 1

\* ------------------------------------------------------------------------
\* C18: at a dispatch with n matching active handlers of which k >= 1
\* throw, all n handlers are invoked, and one aggregate error is raised to
\* the caller of the mutation that closed the transaction, reporting k
\* failures out of n invoked handlers (and no handler error when k = 0).
\* ------------------------------------------------------------------------
C18_AllHandlersInvokedThenOneError ==
  [][last'.log # << >> =>
        LET rec == last'.log[1].record
            H == MatchingActive(SeqToSet(rec.valueTypes))
            K == {h \in H : keyToChangedHandler[h].throws}
        IN  /\ DispatchedOnce(last'.log, H, rec)
            /\ K # {} =>
                 /\ last'.thrown = "handler"
                 /\ last'.handlerError =
                       <<[errors |-> Cardinality(K), handled |-> Cardinality(H)]>>
            /\ K = {} => last'.handlerError = << >>]_vars

\* the first of two handlers threw, the second was still invoked: 1 of 2
C18_Witness ==
  /\ last.handlerError = <<[errors |-> 1, handled |-> 2]>>
  /\ Len(last.log) = 2
  /\ keyToChangedHandler[last.log[1].handler].throws
  /\ ~ keyToChangedHandler[last.log[2].handler].throws

\* ------------------------------------------------------------------------
\* C19: a handler that throws does not change what the mutation did to the
\* cache: after a set / setAll / delete / clear / setMaxSize whose dispatch
\* raised a handler error, the cache (entries, values, alternate-key
\* bindings, recency order, maxSize) is the one the same call leaves when
\* no handler throws, and every element of a set / setAll was applied.
\* ------------------------------------------------------------------------
\* the registry with the same handlers, none of which throws
Calm(reg) ==
  [reg EXCEPT !.keyToChangedHandler =
                 [h \in DOMAIN @ |-> [@[h] EXCEPT !.throws = FALSE]]]

\* the cache the call leaves, from the current state, with registry reg
CacheAfter(reg, call) ==
  LET t == call.valueType
  IN  CASE call.op \in {"set", "setAll"} -> setAll(reg, World(t), t, call.items).cache
        [] call.op = "delete" -> cacheDelete(reg, World(t), t, call.key).w.cache
        [] call.op = "clear" -> cacheClear(reg, World(t), t).cache
        [] call.op = "setMaxSize" -> cacheSetMaxSize(reg, World(t), t, call.ret[1]).cache

C19_HandlerErrorLeavesMutationApplied ==
  [][last'.thrown = "handler" =>
        /\ valueTypeToCache'[last'.valueType] = CacheAfter(Calm(Reg), last')
        /\ last'.op \in {"set", "setAll"} => last'.applied = Len(last'.items)
        /\ last'.op = "clear" => getSize(valueTypeToCache'[last'.valueType].lruMap) = 0]_vars

\* a setAll of two entries into a cache of maxSize 1: the handler threw, the
\* second entry is in the cache and the first one was evicted
C19_Witness ==
  /\ last.op = "setAll"
  /\ last.thrown = "handler"
  /\ last.applied = 2
  /\ last.evicted = <<"k1">>
  /\ Order(LastCache) = <<"k2">>
  /\ DOMAIN LastCache.alternateKeyToKey = {"a1"}

\* ------------------------------------------------------------------------
\* Specification SpecFilter: caches of two value types, listeners with each
\* shape of filter (null, a string, an array of two types, an empty array),
\* changes made in callbacks of cacheTransaction and outside of them
\* ------------------------------------------------------------------------
FilterShapes == {FilterNull, FilterString("T1"),
                 FilterArray(<<"T1", "T2">>), FilterArray(<< >>)}

NextFilter ==
  \/ \E t \in TxValueTypes : GetCache(t)
  \/ \E f \in FilterShapes : registerCacheChangedHandler(FALSE, f)
  \/ \E h \in 0..(MaxHandlers - 1) : HandlerDeactivate(h)
  \/ TxCallbackBegin
  \/ TxCallbackEnd(FALSE)
  \/ \E t \in TxValueTypes : TxRoom /\ CacheSet(t, TxItem)

SpecFilter == Init /\ [][NextFilter]_vars

\* the filter F is null or names one of the value types V
NullOrShares(F, V) ==
  \/ F.kind = "null"
  \/ F.kind = "array" /\ SeqToSet(F.arr) \cap V # {}
  \/ F.kind = "string" /\ F.str \in V

\* the number of invocations of handler h in log
Invocations(log, h) == Cardinality({j \in 1..Len(log) : log[j].handler = h})

\* the step is a dispatch: the outermost callback ends, or a cache operation
\* outside of a transaction has invoked a listener
ClosingDispatch == last'.op = "callbackEnd" /\ runningTransactions' = 0

DirectDispatch == runningTransactions = 0 /\ last'.op = "set" /\ last'.log # << >>

\* ------------------------------------------------------------------------
\* C20: at a dispatch whose record touches the value types V, a registered
\* active listener with filter F is invoked if and only if F is null or F
\* shares a value type with V, and exactly once: at each dispatch every
\* active listener has one invocation when its filter is null or names a
\* type of V, and none otherwise.
\* ------------------------------------------------------------------------
C20_InvokedIffNullOrSharedType ==
  [][/\ ClosingDispatch =>
          \A h \in DOMAIN keyToChangedHandler :
             keyToChangedHandler[h].isActive =>
               Invocations(last'.log, h) =
                 IF NullOrShares(keyToChangedHandler[h].valueTypes,
                                 SeqToSet(transactionChangeObject[1].valueTypes))
                 THEN 1 ELSE 0
     /\ DirectDispatch =>
          \A h \in DOMAIN keyToChangedHandler :
             keyToChangedHandler[h].isActive =>
               Invocations(last'.log, h) =
                 IF NullOrShares(keyToChangedHandler[h].valueTypes,
                                 SeqToSet(last'.log[1].record.valueTypes))
                 THEN 1 ELSE 0]_vars

\* what the code does: a listener whose filter is an empty array is invoked
\* like one whose filter is null; with that case added the statement holds,
\* and a listener that is not active is never invoked
C20_InvokedIffAllTypesOrSharedType ==
  [][/\ ClosingDispatch =>
          \A h \in DOMAIN keyToChangedHandler :
             Invocations(last'.log, h) =
               IF h \in MatchingActive(SeqToSet(transactionChangeObject[1].valueTypes))
               THEN 1 ELSE 0
     /\ DirectDispatch =>
          \A h \in DOMAIN keyToChangedHandler :
             Invocations(last'.log, h) =
               IF h \in MatchingActive(SeqToSet(last'.log[1].record.valueTypes))
               THEN 1 ELSE 0]_vars

\* a record of both value types was dispatched once to a listener whose
\* filter names both
C20_BothTypesOnce ==
  /\ last.op = "callbackEnd"
  /\ Len(last.log) = 1
  /\ SeqToSet(last.log[1].record.valueTypes) = {"T1", "T2"}
  /\ keyToChangedHandler[last.log[1].handler].valueTypes = FilterArray(<<"T1", "T2">>)

\* a record of T2 alone was dispatched to a listener whose filter is an
\* empty array
C20_EmptyArrayInvoked ==
  /\ last.log # << >>
  /\ SeqToSet(last.log[1].record.valueTypes) = {"T2"}
  /\ keyToChangedHandler[last.log[1].handler].valueTypes = FilterArray(<< >>)

\* ------------------------------------------------------------------------
\* Specification SpecHandles: the handles of the listeners (deactivate,
\* activate, unregister, in any order and also after unregister), with
\* changes of one cache inside and outside of a callback transaction
\* ------------------------------------------------------------------------
NextHandles ==
  \/ GetCache("T1")
  \/ \E f \in Filters : registerCacheChangedHandler(FALSE, f)
  \/ \E h \in 0..(MaxHandlers - 1) : HandlerDeactivate(h)
  \/ \E h \in 0..(MaxHandlers - 1) : HandlerActivate(h)
  \/ \E h \in 0..(MaxHandlers - 1) : HandlerUnregister(h)
  \/ TxCallbackBegin
  \/ TxCallbackEnd(FALSE)
  \/ TxRoom /\ CacheSet("T1", TxItem)

SpecHandles == Init /\ [][NextHandles]_vars

\* the handlers a step has invoked
Invoked(log) == {log[j].handler : j \in 1..Len(log)}

\* ------------------------------------------------------------------------
\* C21: a handler is invoked at a dispatch only if it is registered and
\* active at that moment.  isActive is made false by deactivate() and true
\* again only by activate(); every handler a step invokes is registered and
\* has isActive true; a dispatch invokes every registered active handler
\* whose filter matches, so a handler that was activated again is invoked
\* again; a handler that was unregistered stays unregistered
\* (isRegistered() is false) and is therefore never invoked again.
\* ------------------------------------------------------------------------
C21_InvokedOnlyWhileRegisteredAndActive ==
  [][/\ \A h \in Invoked(last'.log) :
          isRegistered(h) /\ keyToChangedHandler[h].isActive
     /\ \A h \in 0..(MaxHandlers - 1) :
          /\ (HasHandle(h) /\ handlerOf(h).isActive /\ ~handlerOf(h).isActive')
                => last'.op = "deactivate"
          /\ (HasHandle(h) /\ ~handlerOf(h).isActive /\ handlerOf(h).isActive')
                => last'.op = "activate"
          /\ h \in DOMAIN unregisteredHandlers =>
                h \in DOMAIN unregisteredHandlers' /\ ~isRegistered(h)'
     /\ ClosingDispatch =>
          Invoked(last'.log) =
            MatchingActive(SeqToSet(transactionChangeObject[1].valueTypes))
     /\ (last'.op = "set" /\ runningTransactions = 0 /\ last'.applied = 1) =>
          Invoked(last'.log) = MatchingActive({last'.valueType})]_vars

\* handler 1 was unregistered and then activated, handler 0 was deactivated
\* and activated after that, and a set has invoked handler 0 alone
C21_Witness ==
  /\ last.op = "set"
  /\ Invoked(last.log) = {0}
  /\ allTypesActiveChangeHandlerKeys = <<1, 0>>
  /\ 1 \in DOMAIN unregisteredHandlers
  /\ ~isRegistered(1)

\* ------------------------------------------------------------------------
\* C22: at every dispatch the matching active handlers are invoked in the
\* order in which they were registered, whatever their filters and whatever
\* deactivate / activate calls happened in between.  Handler keys are given
\* out in registration order (nextHandlerKey), so the handlers a step
\* invokes have increasing keys.
\* ------------------------------------------------------------------------
C22_InvokedInRegistrationOrder ==
  [][\A i, j \in 1..Len(last'.log) :
        i < j => last'.log[i].handler < last'.log[j].handler]_vars

\* what the code does: the handlers registered for the touched types are
\* invoked first and the handlers registered for all types after them, each
\* group in the order of its last activation
C22_InvokedInIndexOrder ==
  [][\A i, j \in 1..Len(last'.log) :
        i < j =>
          LET hi == last'.log[i].handler
              hj == last'.log[j].handler
              all == allTypesActiveChangeHandlerKeys
              Pos(h) == CHOOSE n \in 1..Len(all) : all[n] = h
          IN  /\ hi # hj
              /\ hi \in SeqToSet(all) => hj \in SeqToSet(all) /\ Pos(hi) < Pos(hj)]_vars

\* the handler registered first, for all types, was invoked after the
\* handler for T1 that was registered second
C22_AllTypesHandlerLast ==
  /\ last.op = "set"
  /\ Len(last.log) = 2
  /\ last.log[1].handler = 1
  /\ last.log[2].handler = 0
  /\ allTypesActiveChangeHandlerKeys = <<0>>
  /\ unregisteredHandlers = EmptyMap

\* ------------------------------------------------------------------------
\* Observations of the record an operation has dispatched
\* ------------------------------------------------------------------------
\* the record the handlers of a call were invoked with (an empty one if no
\* handler was invoked)
RecordOf(call) == IF call.log = << >> THEN NewChangeObject ELSE call.log[1].record

\* the events of one kind a record holds for a value type
ListOf(R, t, kind) == IF t \in SeqToSet(R.valueTypes) THEN R.ev[t][kind] ELSE << >>

Payload(e) == [key |-> e.key, value |-> e.value, alternateKeys |-> e.alternateKeys]

\* the entry of e.key as it was when event e of record R was recorded: the
\* entry of the latest insert of R before e, or the entry cache c held
EntryBefore(R, t, c, e) ==
  LET ins == ListOf(R, t, "inserts")
      earlier == {i \in 1..Len(ins) : ins[i].key = e.key /\ ins[i].order < e.order}
  IN  IF earlier = {} THEN EntryOf(c, e.key)
      ELSE Payload(ins[CHOOSE i \in earlier : \A j \in earlier : j <= i])

\* ------------------------------------------------------------------------
\* C23: with dispatchLruRemoves enabled and an interested listener, every
\* eviction caused by set / setAll records exactly one lruRemove event: the
\* lruRemoves of the record are the evicted entries, one each and in the
\* order of the evictions, each with the key, value and alternate keys the
\* entry had when it was evicted, and with the order number that follows
\* the order number of an insert of the same record.
\* ------------------------------------------------------------------------
C23_EvictionRecordsOneLruRemove ==
  [][(/\ last'.op \in {"set", "setAll"}
      /\ runningTransactions = 0
      /\ valueTypeToCache[last'.valueType].dispatchLruRemoves
      /\ hasActiveHandler(Reg, last'.valueType)) =>
        LET t == last'.valueType
            R == RecordOf(last')
            lru == ListOf(R, t, "lruRemoves")
            ins == ListOf(R, t, "inserts")
        IN  /\ Len(lru) = Len(last'.evicted)
            /\ \A n \in 1..Len(lru) :
                 /\ lru[n].key = last'.evicted[n]
                 /\ lru[n].key \notin LiveKeys(valueTypeToCache'[t])
                      \/ \E i \in 1..Len(ins) :
                           ins[i].key = lru[n].key /\ ins[i].order > lru[n].order
                 /\ Payload(lru[n]) = EntryBefore(R, t, valueTypeToCache[t], lru[n])
                 /\ \E i \in 1..Len(ins) :
                      /\ ins[i].order + 1 = lru[n].order
                      /\ ins[i].key # lru[n].key]_vars

\* a set has evicted an entry that had an alternate key, and the listener
\* was told of the insert (order 0) and of the eviction (order 1)
C23_Witness ==
  /\ last.op = "set"
  /\ last.evicted = <<"k2">>
  /\ last.log # << >>
  /\ Len(ListOf(RecordOf(last), "T1", "lruRemoves")) = 1
  /\ ListOf(RecordOf(last), "T1", "lruRemoves")[1] =
       [key |-> "k2", value |-> "v2", alternateKeys |-> {"a1"}, order |-> 1]

\* a setAll has evicted an entry that it had inserted itself
C23_EvictedOwnInsert ==
  /\ last.op = "setAll"
  /\ Len(last.evicted) = 2
  /\ last.log # << >>
  /\ Len(ListOf(RecordOf(last), "T1", "lruRemoves")) = 2
  /\ ListOf(RecordOf(last), "T1", "lruRemoves")[2].key = "k1"
  /\ ListOf(RecordOf(last), "T1", "lruRemoves")[2].order = 3

\* ------------------------------------------------------------------------
\* C24: with the default flags (dispatchLruRemoves = false,
\* dispatchClearRemoves = false) no lruRemove and no clearRemove event is
\* recorded, while the evicted or cleared entries and their alternate-key
\* bindings are removed exactly as with the flags enabled: the operation
\* leaves the entries, their order and the bindings that the same operation
\* leaves on the same cache with both flags set.
\* ------------------------------------------------------------------------
\* cache c with both flags set
WithFlags(c) == [c EXCEPT !.dispatchLruRemoves = TRUE, !.dispatchClearRemoves = TRUE]

\* the cache the call leaves when it is made on cache c, from the current
\* state of the aggregator
CacheAfterOn(reg, c, call) ==
  LET t == call.valueType
      w == NewWorld(c, transactionChangeObject, changeOrder, runningTransactions,
                    handleChanges)
  IN  CASE call.op \in {"set", "setAll"} -> setAll(reg, w, t, call.items).cache
        [] call.op = "delete" -> cacheDelete(reg, w, t, call.key).w.cache
        [] call.op = "clear" -> cacheClear(reg, w, t).cache
        [] call.op = "setMaxSize" -> cacheSetMaxSize(reg, w, t, call.ret[1]).cache

C24_ClearedSilently ==
  /\ last.op = "clear"
  /\ ~LastCache.dispatchClearRemoves
  /\ keyToChangedHandler # EmptyMap
  /\ last.log = << >>

\* ------------------------------------------------------------------------
\* Specification SpecShrink: one LruCache of up to three entries whose
\* maxSize is lowered, with and without a listener and dispatchLruRemoves
\* ------------------------------------------------------------------------
ShrinkItems == {Item("k1", "v1", AltString("a1")), Item("k2", "v2", AltArray(<<"a2">>)),
                Item("k3", "v1", NoAlt)}

NextShrink ==
  \/ GetCache("T1")
  \/ \E f \in Filters : registerCacheChangedHandler(FALSE, f)
  \/ CacheDispatchLruRemoves("T1", TRUE)
  \/ \E item \in ShrinkItems : CacheSet("T1", item)
  \/ \E k \in {"k1", "a2"} : CacheGet("T1", k)
  \/ \E n \in 1..MaxSizeArg : CacheSetMaxSize("T1", n)

SpecShrink == Init /\ [][NextShrink]_vars

\* ------------------------------------------------------------------------
\* C25: setMaxSize(n) with 1 <= n < size evicts exactly size - n entries,
\* the least recently touched ones (the first size - n of the traversal
\* order), oldest first, unbinds their alternate keys and leaves the
\* surviving entries with their values and relative order; with
\* dispatchLruRemoves enabled (and a listener) each evicted entry is
\* recorded as one lruRemove, in that order, in a single dispatch.
\* ------------------------------------------------------------------------
C25_SetMaxSizeEvictsOldest ==
  [][(/\ last'.op = "setMaxSize"
      /\ runningTransactions = 0
      /\ 1 <= last'.ret[1]
      /\ last'.ret[1] < getSize(valueTypeToCache[last'.valueType].lruMap)) =>
        LET t == last'.valueType
            n == last'.ret[1]
            c == valueTypeToCache[t]
            d == valueTypeToCache'[t]
            size == getSize(c.lruMap)
            gone == SubSeq(Order(c), 1, size - n)
            R == RecordOf(last')
            lru == ListOf(R, t, "lruRemoves")
        IN  /\ last'.evicted = gone
            /\ Order(d) = SubSeq(Order(c), size - n + 1, size)
            /\ \A k \in LiveKeys(d) : EntryOf(d, k) = EntryOf(c, k)
            /\ getMaxSize(d.lruMap) = n
            /\ \A k \in SeqToSet(gone) :
                 EntryOf(c, k).alternateKeys \cap DOMAIN d.alternateKeyToKey = {}
            /\ \A a \in DOMAIN c.alternateKeyToKey :
                 c.alternateKeyToKey[a] \in LiveKeys(d) =>
                   a \in DOMAIN d.alternateKeyToKey
                     /\ d.alternateKeyToKey[a] = c.alternateKeyToKey[a]
            /\ DOMAIN d.alternateKeyToKey \subseteq DOMAIN c.alternateKeyToKey
            /\ IF c.dispatchLruRemoves /\ hasActiveHandler(Reg, t)
               THEN /\ DispatchedOnce(last'.log, MatchingActive({t}), R)
                    /\ Len(lru) = size - n
                    /\ \A i \in 1..Len(lru) :
                         /\ Payload(lru[i]) = EntryOf(c, gone[i])
                         /\ lru[i].order = i - 1
                    /\ Cardinality(EventsOf(<<R>>)) = size - n
               ELSE EventsOf(<<R>>) = {}]_vars

\* setMaxSize(1) on three entries has evicted two of them, k2 (the one with
\* alternate key a2) first, and the listener was told of both at once
C25_Witness ==
  /\ last.op = "setMaxSize"
  /\ Len(last.evicted) = 2
  /\ last.evicted[1] = "k2"
  /\ Len(last.log) = 1
  /\ Len(ListOf(RecordOf(last), "T1", "lruRemoves")) = 2
  /\ getSize(LastCache.lruMap) = 1
  /\ DOMAIN LastCache.alternateKeyToKey \subseteq {"a1"}

\* ------------------------------------------------------------------------
\* C26: clear() leaves the cache with no entries and no alternate-key
\* bindings, so that every former primary and alternate key misses, and
\* with dispatchClearRemoves enabled (and a listener) it records one
\* clearRemove per former entry, oldest first, all of them delivered in a
\* single dispatch.
\* ------------------------------------------------------------------------
C26_ClearEmptiesAndRecordsEach ==
  [][(last'.op = "clear" /\ runningTransactions = 0) =>
        LET t == last'.valueType
            c == valueTypeToCache[t]
            d == valueTypeToCache'[t]
            former == getEntries(c)
            R == RecordOf(last')
            cleared == ListOf(R, t, "clearRemoves")
        IN  /\ getSize(d.lruMap) = 0
            /\ getEntries(d) = << >>
            /\ d.alternateKeyToKey = EmptyMap
            /\ \A k \in LiveKeys(c) \cup DOMAIN c.alternateKeyToKey :
                 /\ Lookup(d, k) = << >>
                 /\ cacheGet(d, k).ret = << >>
            /\ getMaxSize(d.lruMap) = getMaxSize(c.lruMap)
            /\ IF c.dispatchClearRemoves /\ hasActiveHandler(Reg, t)
               THEN /\ Len(cleared) = Len(former)
                    /\ \A i \in 1..Len(cleared) :
                         /\ Payload(cleared[i]) = former[i]
                         /\ cleared[i].order = i - 1
                    /\ Cardinality(EventsOf(<<R>>)) = Len(former)
                    /\ former # << >> =>
                         DispatchedOnce(last'.log, MatchingActive({t}), R)
               ELSE EventsOf(<<R>>) = {}]_vars

\* a clear of two entries, k2 the older one, was delivered in one record to
\* a listener; the cache is empty
C26_Witness ==
  /\ last.op = "clear"
  /\ last.log # << >>
  /\ Len(ListOf(RecordOf(last), "T1", "clearRemoves")) = 2
  /\ ListOf(RecordOf(last), "T1", "clearRemoves")[1].key = "k2"
  /\ ListOf(RecordOf(last), "T1", "clearRemoves")[1].alternateKeys = {"a1"}
  /\ getSize(LastCache.lruMap) = 0
  /\ LastCache.alternateKeyToKey = EmptyMap

\* ------------------------------------------------------------------------
\* Specification SpecClearAll: caches of two value types, listeners,
\* clearAllCaches outside of a transaction and while a promise transaction
\* is pending
\* ------------------------------------------------------------------------
ClearAllCaches ==
  /\ \E r \in {clearAllCaches(Reg, valueTypeToCache, valueTypeToCacheKeys,
                              AggregatorWorld)} :
       /\ valueTypeToCache' = r.caches
       /\ CommitAggregator(r.w)
       /\ last' = CacheCall("clearAllCaches", Null, Null, << >>, << >>, r.w)
  /\ UNCHANGED <<mapVars, runtimeVars, registryVars, openCallbacks, pendingPromises>>

ClearAllItems == {Item("k1", "v1", AltString("a1")), Item("k2", "v2", NoAlt)}

NextClearAll ==
  \/ \E t \in TxValueTypes : GetCache(t)
  \/ /\ nextHandlerKey < MaxTxHandlers
     /\ \E f \in Filters : registerCacheChangedHandler(FALSE, f)
  \/ \E t \in TxValueTypes : CacheDispatchClearRemoves(t, TRUE)
  \/ \E item \in ClearAllItems : TxRoom /\ CacheSet("T1", item)
  \/ TxRoom /\ CacheSet("T2", TxItem)
  \/ pendingPromises = 0 /\ TxPromiseBegin
  \/ TxPromiseSettle(FALSE)
  \/ ClearAllCaches

SpecClearAll == Init /\ [][NextClearAll]_vars

\* ------------------------------------------------------------------------
\* C27: clearAllCaches() empties every cache created so far and causes at
\* most one handler invocation per listener: the clearRemoves of all caches
\* arrive batched in one record, never one dispatch per cache.  The record
\* (the one dispatched, or the one still accumulating while a promise
\* transaction is pending) holds the former entries of every cache that has
\* dispatchClearRemoves enabled and an interested listener.
\* ------------------------------------------------------------------------
C27_ClearAllCachesOneDispatch ==
  [][last'.op = "clearAllCaches" =>
        LET R == IF runningTransactions = 0 THEN RecordOf(last')
                 ELSE transactionChangeObject'[1]
            Before(t) == IF runningTransactions = 0 THEN 0
                         ELSE Len(ListOf(transactionChangeObject[1], t, "clearRemoves"))
        IN  /\ DOMAIN valueTypeToCache' = DOMAIN valueTypeToCache
            /\ \A t \in DOMAIN valueTypeToCache' :
                 /\ getSize(valueTypeToCache'[t].lruMap) = 0
                 /\ valueTypeToCache'[t].alternateKeyToKey = EmptyMap
            /\ \A h \in DOMAIN keyToChangedHandler : Invocations(last'.log, h) <= 1
            /\ \A j \in 1..Len(last'.log) : last'.log[j].record = last'.log[1].record
            /\ runningTransactions > 0 => last'.log = << >>
            /\ runningTransactions = 0 =>
                 /\ Invoked(last'.log) = MatchingActive(SeqToSet(R.valueTypes))
                 /\ transactionChangeObject' = << >>
            /\ \A t \in DOMAIN valueTypeToCache :
                 LET c == valueTypeToCache[t]
                     cleared == ListOf(R, t, "clearRemoves")
                     former == getEntries(c)
                 IN  IF c.dispatchClearRemoves /\ hasActiveHandler(Reg, t)
                     THEN /\ Len(cleared) = Before(t) + Len(former)
                          /\ \A i \in 1..Len(former) :
                               Payload(cleared[Before(t) + i]) = former[i]
                     ELSE Len(cleared) = Before(t)]_vars

\* clearAllCaches has cleared two caches that held an entry each, and the
\* listener was invoked once, with the clearRemoves of both value types
C27_Witness ==
  /\ last.op = "clearAllCaches"
  /\ Len(last.log) = 1
  /\ SeqToSet(RecordOf(last).valueTypes) = {"T1", "T2"}
  /\ Len(ListOf(RecordOf(last), "T1", "clearRemoves")) = 1
  /\ Len(ListOf(RecordOf(last), "T2", "clearRemoves")) = 1
  /\ \A t \in {"T1", "T2"} : getSize(valueTypeToCache[t].lruMap) = 0

\* ------------------------------------------------------------------------
\* C28: delete(k) on a present primary key k removes the entry, unbinds all
\* of its alternate keys, records exactly one deleteRemove with the entry's
\* key, value and alternate keys (when a listener is interested) and
\* returns true; delete(k) on an absent key (one that no lookup resolves)
\* returns false, changes nothing and records no event; so after a delete
\* of k a second delete of k returns false.
\* ------------------------------------------------------------------------
\* delete(k) on a present primary key
DeletesPresentKey(c, d, call) ==
  LET t == call.valueType
      k == call.key
      R == RecordOf(call)
      deleted == ListOf(R, t, "deleteRemoves")
  IN  /\ call.ret = <<TRUE>>
      /\ Order(d) = SeqWithout(Order(c), k)
      /\ \A x \in LiveKeys(d) : EntryOf(d, x) = EntryOf(c, x)
      /\ EntryOf(c, k).alternateKeys \cap DOMAIN d.alternateKeyToKey = {}
      /\ d.alternateKeyToKey =
           Restrict(c.alternateKeyToKey,
                    (DOMAIN c.alternateKeyToKey) \ EntryOf(c, k).alternateKeys)
      /\ IF hasActiveHandler(Reg, t)
         THEN /\ Len(deleted) = 1
              /\ Payload(deleted[1]) = EntryOf(c, k)
              /\ Cardinality(EventsOf(<<R>>)) = 1
              /\ DispatchedOnce(call.log, MatchingActive({t}), R)
         ELSE call.log = << >>

\* delete(k) on an absent key
DeleteMisses(c, d, call) ==
  /\ call.ret = <<FALSE>>
  /\ d = c
  /\ call.log = << >>

C28_DeleteRemovesOnceThenMisses ==
  [][(last'.op = "delete" /\ runningTransactions = 0) =>
        LET t == last'.valueType
            k == last'.key
            c == valueTypeToCache[t]
            d == valueTypeToCache'[t]
        IN  /\ k \in LiveKeys(c) =>
                 /\ DeletesPresentKey(c, d, last')
                 /\ cacheDelete(Reg, NewWorld(d, << >>, 0, 0, TRUE), t, k).ret = FALSE
            /\ Lookup(c, k) = << >> => DeleteMisses(c, d, last')]_vars

\* what the code does: the second delete returns false unless the key is
\* also an alternate key of another entry
C28_SecondDeleteMissesWithoutCollision ==
  [][(last'.op = "delete" /\ runningTransactions = 0) =>
        LET t == last'.valueType
            k == last'.key
            c == valueTypeToCache[t]
            d == valueTypeToCache'[t]
        IN  /\ k \in LiveKeys(c) =>
                 /\ DeletesPresentKey(c, d, last')
                 /\ k \notin DOMAIN d.alternateKeyToKey =>
                      cacheDelete(Reg, NewWorld(d, << >>, 0, 0, TRUE), t, k).ret = FALSE
            /\ Lookup(c, k) = << >> => DeleteMisses(c, d, last')]_vars

\* delete(k2) has removed the entry k2 and returned true, and k2 is still
\* bound as an alternate key of the entry k1
C28_DeletedKeyStillResolves ==
  /\ last.op = "delete"
  /\ last.key = "k2"
  /\ last.ret = <<TRUE>>
  /\ "k2" \notin LiveKeys(LastCache)
  /\ Lookup(LastCache, "k2") # << >>

\* a delete of a present key was told to a listener
C28_DeleteDispatched ==
  /\ last.op = "delete"
  /\ last.ret = <<TRUE>>
  /\ Len(last.log) = 2
  /\ Len(ListOf(RecordOf(last), "T1", "deleteRemoves")) = 1

\* ------------------------------------------------------------------------
\* C29: delete works with the primary key but not with an alternate key:
\* delete(a), where a is an alternate key of a live entry and not a primary
\* key, returns false and removes nothing, and a following delete of that
\* entry's primary key returns true.
\* ------------------------------------------------------------------------
\* a is bound as an alternate key of a live entry of c and is no primary key
AlternateKeyOnly(c, a) ==
  /\ a \notin LiveKeys(c)
  /\ a \in DOMAIN c.alternateKeyToKey
  /\ c.alternateKeyToKey[a] \in LiveKeys(c)

C29_DeleteByAlternateKeyMisses ==
  [][(/\ last'.op = "delete"
      /\ AlternateKeyOnly(valueTypeToCache[last'.valueType], last'.key)) =>
        LET t == last'.valueType
            c == valueTypeToCache[t]
            d == valueTypeToCache'[t]
        IN  /\ last'.ret = <<FALSE>>
            /\ d = c
            /\ cacheDelete(Reg, NewWorld(d, << >>, 0, 0, TRUE), t,
                           c.alternateKeyToKey[last'.key]).ret = TRUE]_vars

\* what the code does: delete(a) removes the entry a is bound to, as a
\* delete of its primary key does, and returns true
C29_DeleteByAlternateKeyRemoves ==
  [][(/\ last'.op = "delete"
      /\ AlternateKeyOnly(valueTypeToCache[last'.valueType], last'.key)) =>
        LET t == last'.valueType
            c == valueTypeToCache[t]
            d == valueTypeToCache'[t]
            k == c.alternateKeyToKey[last'.key]
        IN  /\ last'.ret = <<TRUE>>
            /\ d = cacheDelete(Calm(Reg), World(t), t, k).w.cache
            /\ k \notin LiveKeys(d)
            /\ last'.key \notin DOMAIN d.alternateKeyToKey
            /\ cacheDelete(Reg, NewWorld(d, << >>, 0, 0, TRUE), t, k).ret = FALSE]_vars

\* delete(a1) has returned true and has removed the entry k2
C29_DeletedByAlternateKey ==
  /\ last.op = "delete"
  /\ last.key = "a1"
  /\ last.ret = <<TRUE>>
  /\ getSize(LastCache.lruMap) = 1
  /\ "k2" \notin LiveKeys(LastCache)

\* ------------------------------------------------------------------------
\* Specification SpecAsync: setAsync / setAllAsync on one cache, the timers
\* they start, and synchronous operations made before the timers fire.
\* Timers of the same delay fire in the order in which they were started,
\* each in a turn of its own, when no synchronous code is running.
\* ------------------------------------------------------------------------
AsyncCall(op, t, items) ==
  [op |-> op, valueType |-> t, items |-> items, promise |-> "pending"]

CacheSetAllAsync(t, items) ==
  /\ t \in DOMAIN valueTypeToCache
  /\ Len(asyncCalls) < MaxAsync
  /\ \E w \in {asyncWrap(Reg, World(t), t, items)} :
         /\ Commit(t, w)
         /\ last' = CacheCall("setAllAsync", t, Null, items, << >>, w)
  /\ asyncCalls' = Append(asyncCalls, AsyncCall("setAllAsync", t, items))
  /\ UNCHANGED <<mapVars, registryVars, unregisteredHandlers, valueTypeToCacheKeys,
                 getterVars>>

CacheSetAsync(t, item) ==
  /\ t \in DOMAIN valueTypeToCache
  /\ Len(asyncCalls) < MaxAsync
  /\ \E w \in {asyncWrap(Reg, World(t), t, <<item>>)} :
         /\ Commit(t, w)
         /\ last' = CacheCall("setAsync", t, item.key, <<item>>, << >>, w)
  /\ asyncCalls' = Append(asyncCalls, AsyncCall("setAsync", t, <<item>>))
  /\ UNCHANGED <<mapVars, registryVars, unregisteredHandlers, valueTypeToCacheKeys,
                 getterVars>>

\* the oldest timer that has not fired yet
NextTimer ==
  CHOOSE i \in 1..Len(asyncCalls) :
     /\ asyncCalls[i].promise = "pending"
     /\ \A j \in 1..(i - 1) : asyncCalls[j].promise # "pending"

TimerFires ==
  /\ openCallbacks = 0
  /\ \E i \in 1..Len(asyncCalls) : asyncCalls[i].promise = "pending"
  /\ LET call == asyncCalls[NextTimer]
         t == call.valueType
     IN  \E w \in {asyncWrapTimeout(Reg, World(t), t, call.items)} :
            /\ Commit(t, w)
            /\ last' = CacheCall("timeout", t, Null, call.items, << >>, w)
            /\ asyncCalls' = [asyncCalls EXCEPT ![NextTimer].promise = settle(w)]
  /\ UNCHANGED <<mapVars, registryVars, unregisteredHandlers, valueTypeToCacheKeys,
                 getterVars>>

AsyncItems == {Item("k1", "v1", AltString("a1")), Item("k1", "v2", AltString("a2")),
               Item("k2", "v1", AltString("a1"))}

AsyncBatch == <<Item("k2", "v2", NoAlt), Item("k1", "v2", AltString("a2"))>>

NextAsync ==
  \/ GetCache("T1")
  \/ /\ nextHandlerKey < MaxTxHandlers
     /\ registerCacheChangedHandler(FALSE, FilterNull)
  \/ \E item \in AsyncItems : CacheSetAsync("T1", item)
  \/ CacheSetAllAsync("T1", AsyncBatch)
  \/ TimerFires
  \/ \E item \in AsyncItems : CacheSet("T1", item)
  \/ \E k \in {"k1", "a2"} : CacheGet("T1", k)
  \/ CacheDelete("T1", "k1")

SpecAsync == Init /\ [][NextAsync]_vars

\* ------------------------------------------------------------------------
\* C30: setAsync / setAllAsync do not change the cache in the calling turn:
\* the call leaves the cache, the aggregator and the listeners alone, so
\* every synchronous operation made before the timer fires sees the state
\* it would have seen without the call; only the step of a timer changes a
\* promise, that step applies the entries of the call as the synchronous
\* set / setAll applies them to the cache as it is then, and the promise is
\* fulfilled or rejected in that very step, never before.
\* ------------------------------------------------------------------------
C30_AsyncSetAppliesInLaterTurn ==
  [][/\ last'.op \in {"setAsync", "setAllAsync"} =>
          /\ valueTypeToCache' = valueTypeToCache
          /\ UNCHANGED <<registryVars, aggregatorVars>>
          /\ last'.log = << >>
          /\ Len(asyncCalls') = Len(asyncCalls) + 1
          /\ asyncCalls'[Len(asyncCalls')] =
               AsyncCall(last'.op, last'.valueType, last'.items)
          /\ \A k \in LookupKeys :
               cacheGet(valueTypeToCache'[last'.valueType], k) =
                 cacheGet(valueTypeToCache[last'.valueType], k)
     /\ \A i \in 1..Len(asyncCalls) :
          /\ asyncCalls'[i].items = asyncCalls[i].items
          /\ asyncCalls[i].promise # "pending" =>
               asyncCalls'[i].promise = asyncCalls[i].promise
          /\ (asyncCalls[i].promise = "pending" /\ asyncCalls'[i].promise # "pending") =>
               LET t == asyncCalls[i].valueType
                   sync == setAll(Reg, World(t), t, asyncCalls[i].items)
               IN  /\ last'.op = "timeout"
                   /\ last'.items = asyncCalls[i].items
                   /\ valueTypeToCache'[t] = sync.cache
                   /\ last'.log = sync.log
                   /\ last'.applied = sync.applied
                   /\ asyncCalls'[i].promise = "fulfilled" <=> sync.thrown = "none"
                   /\ sync.thrown = "none" =>
                        LET item == asyncCalls[i].items[Len(asyncCalls[i].items)]
                        IN  cacheGetWithoutLruChange(valueTypeToCache'[t], item.key).ret
                              = <<item.value>>
     /\ last'.op \notin {"timeout", "set", "get", "delete", "getCache"} =>
          valueTypeToCache' = valueTypeToCache]_vars

\* setAsync of the new key k1 was called and a get of k1 in the same turn
\* has missed; the promise is pending
C30_Witness ==
  /\ last.op = "get"
  /\ last.key = "k1"
  /\ last.ret = << >>
  /\ Len(asyncCalls) = 1
  /\ asyncCalls[1].items[1].key = "k1"
  /\ asyncCalls[1].promise = "pending"

\* the timer of a setAllAsync has fired and has applied both entries; the
\* listener was told and the promise is fulfilled
C30_TimerFired ==
  /\ last.op = "timeout"
  /\ Len(last.items) = 2
  /\ last.applied = 2
  /\ last.log # << >>
  /\ asyncCalls[Len(asyncCalls)].promise = "fulfilled"

\* the timer of a setAsync has fired and the set was rejected with an
\* alternate-key conflict: the promise is rejected
C30_Rejected ==
  /\ last.op = "timeout"
  /\ last.thrown = "conflict"
  /\ \E i \in 1..Len(asyncCalls) : asyncCalls[i].promise = "rejected"

\* ------------------------------------------------------------------------
\* Specification SpecGetter: one cache with an asynchronous entry getter.
\* LruCache.js of this revision has no setEntryGetter; the getter, its memo
\* and the resolution of its awaitables follow the specification of `get`,
\* on top of cacheGet and setAll of the source.
\* ------------------------------------------------------------------------
MaxGetterCalls == 2

MaxWaiters == 3

GetterKeys == {"k1", "k2"}

\* the entry the getter of the tests fetches for a key
FetchedEntry(key) ==
  IF key = "k1" THEN Item("k1", "k1_value", AltString("k1_alternate"))
  ELSE Item("k2", "k2_value", AltString("k2_alternate"))

NewGetterPromise(key) ==
  [key |-> key, state |-> "pending", value |-> << >>, waiters |-> 1]

\* get on a miss with an async entry getter: a memoized awaitable is
\* shared, otherwise the getter is invoked and its awaitable memoized
getOnMiss(memo, promises, n, key) ==
  IF key \in DOMAIN memo
  THEN [memo |-> memo,
        promises |-> [promises EXCEPT ![memo[key]].waiters = @ + 1],
        nCalls |-> n, promise |-> <<memo[key]>>]
  ELSE [memo |-> MapPut(memo, key, Len(promises) + 1),
        promises |-> Append(promises, NewGetterPromise(key)),
        nCalls |-> n + 1, promise |-> <<Len(promises) + 1>>]

\* mutant: the memo is cleared only when the getter has resolved to an entry
memoKeptOnNothing(memo, key, entry) ==
  IF entry = << >> THEN memo ELSE MapRemove(memo, key)

\* the memo once the awaitable of key has resolved, to an entry or to nothing
memoAfterResolve(memo, key, entry) == MapRemove(memo, key)

SetEntryGetter(t, getter) ==
  /\ t \in DOMAIN valueTypeToCache
  /\ entryGetterKind' = getter
  /\ last' = [NoCacheCall EXCEPT !.op = "setEntryGetter", !.valueType = t]
  /\ UNCHANGED <<mapVars, registryVars, aggregatorVars, valueTypeToCache,
                 unregisteredHandlers, valueTypeToCacheKeys, asyncCalls,
                 keyToPromise, getterPromises, nCalls, lastGet>>

\* get(keyOrAlternateKey) of a cache that may have an entry getter
CacheGetWithEntryGetter(t, k) ==
  /\ t \in DOMAIN valueTypeToCache
  /\ \E r \in {cacheGet(valueTypeToCache[t], k)} :
       /\ valueTypeToCache' = [valueTypeToCache EXCEPT ![t] = r.cache]
       /\ last' = [NoCacheCall EXCEPT !.op = "get", !.valueType = t, !.key = k,
                                      !.ret = r.ret]
       /\ IF r.ret # << >> \/ entryGetterKind = Null
          THEN /\ lastGet' = << >>
               /\ UNCHANGED <<keyToPromise, getterPromises, nCalls>>
          ELSE /\ k \in DOMAIN keyToPromise =>
                     getterPromises[keyToPromise[k]].waiters < MaxWaiters
               /\ k \notin DOMAIN keyToPromise => nCalls < MaxGetterCalls
               /\ \E g \in {getOnMiss(keyToPromise, getterPromises, nCalls, k)} :
                     /\ keyToPromise' = g.memo
                     /\ getterPromises' = g.promises
                     /\ nCalls' = g.nCalls
                     /\ lastGet' = g.promise
  /\ UNCHANGED <<mapVars, registryVars, aggregatorVars, unregisteredHandlers,
                 valueTypeToCacheKeys, asyncCalls, entryGetterKind>>

\* the awaitable of the i-th getter invocation resolves, in a turn of its
\* own: to the fetched entry, which is set into the cache, or to nothing
EntryGetterResolves(t, i, found) ==
  /\ t \in DOMAIN valueTypeToCache
  /\ openCallbacks = 0
  /\ i \in 1..Len(getterPromises)
  /\ getterPromises[i].state = "pending"
  /\ LET key == getterPromises[i].key
         entry == FetchedEntry(key)
     IN  /\ IF found
            THEN \E w \in {setAll(Reg, World(t), t, <<entry>>)} :
                   /\ Commit(t, w)
                   /\ last' = CacheCall("getterResolved", t, key, <<entry>>, << >>, w)
                   /\ getterPromises' =
                        [getterPromises EXCEPT
                           ![i].state = settle(w),
                           ![i].value = IF w.thrown = "none" THEN <<entry.value>>
                                        ELSE << >>]
            ELSE /\ UNCHANGED <<valueTypeToCache, aggregatorVars>>
                 /\ last' = [NoCacheCall EXCEPT !.op = "getterResolved",
                                                !.valueType = t, !.key = key]
                 /\ getterPromises' = [getterPromises EXCEPT ![i].state = "fulfilled"]
         /\ keyToPromise' =
              memoAfterResolve(keyToPromise, key, IF found THEN <<entry>> ELSE << >>)
  /\ lastGet' = << >>
  /\ UNCHANGED <<mapVars, registryVars, unregisteredHandlers, valueTypeToCacheKeys,
                 asyncCalls, entryGetterKind, nCalls>>

NextGetter ==
  \/ GetCache("T1")
  \/ \E g \in {Null, "async"} : SetEntryGetter("T1", g)
  \/ \E k \in GetterKeys : CacheGetWithEntryGetter("T1", k)
  \/ \E i \in 1..MaxGetterCalls : EntryGetterResolves("T1", i, TRUE)
  \/ \E i \in 1..MaxGetterCalls : EntryGetterResolves("T1", i, FALSE)
  \/ CacheSet("T1", Item("k1", "v1", NoAlt))
  \/ CacheDelete("T1", "k1")

SpecGetter == Init /\ [][NextGetter]_vars

\* the pending awaitables of the entry getter for a key
PendingFor(promises, key) ==
  {i \in 1..Len(promises) : promises[i].key = key /\ promises[i].state = "pending"}

\* the awaitable that settles in this step, if one does
SettledNow ==
  {i \in 1..Len(getterPromises) :
     getterPromises[i].state = "pending" /\ getterPromises'[i].state # "pending"}

GetMisses(k) ==
  /\ "T1" \in Caches
  /\ entryGetterKind = "async"
  /\ Lookup(valueTypeToCache["T1"], k) = << >>

\* ------------------------------------------------------------------------
\* C31: with an async entry getter, a get for a missing key whose awaitable
\* is still pending does not invoke the getter again and returns that same
\* awaitable, so a key never has two pending awaitables; when the awaitable
\* resolves to the fetched entry it resolves to the fetched value, the
\* entry is in the cache and the memo of the key is cleared; a get of a key
\* that is in the cache returns its value at once without the getter.
\* ------------------------------------------------------------------------
C31_ConcurrentGetsShareOneInvocation ==
  [][/\ \A k \in GetterKeys : Cardinality(PendingFor(getterPromises', k)) <= 1
     /\ (last'.op = "get" /\ GetMisses(last'.key)
           /\ PendingFor(getterPromises, last'.key) # {}) =>
          /\ nCalls' = nCalls
          /\ Len(getterPromises') = Len(getterPromises)
          /\ \E i \in PendingFor(getterPromises, last'.key) : lastGet' = <<i>>
     /\ (last'.op = "getterResolved" /\ last'.items # << >>) =>
          \A i \in SettledNow :
             /\ getterPromises'[i].state = "fulfilled"
             /\ getterPromises'[i].value = <<FetchedEntry(last'.key).value>>
             /\ Lookup(valueTypeToCache'["T1"], last'.key) # << >>
             /\ Lookup(valueTypeToCache'["T1"], last'.key)[1].value =
                   FetchedEntry(last'.key).value
             /\ last'.key \notin DOMAIN keyToPromise'
     /\ (last'.op = "get" /\ "T1" \in Caches
           /\ Lookup(valueTypeToCache["T1"], last'.key) # << >>) =>
          /\ nCalls' = nCalls
          /\ lastGet' = << >>
          /\ last'.ret = <<Lookup(valueTypeToCache["T1"], last'.key)[1].value>>
    ]_vars

\* three gets have shared the one awaitable of k1, it has resolved to the
\* fetched value, and a later get has returned that value at once
C31_Witness ==
  /\ nCalls = 1
  /\ Len(getterPromises) = 1
  /\ getterPromises[1] = [key |-> "k1", state |-> "fulfilled",
                          value |-> <<"k1_value">>, waiters |-> 3]
  /\ last.op = "get"
  /\ last.key = "k1"
  /\ last.ret = <<"k1_value">>
  /\ lastGet = << >>

\* ------------------------------------------------------------------------
\* C32: when the awaitable of an async entry getter resolves to nothing it
\* resolves to absent, the cache is left as it was and the memo of the key
\* is cleared; the next get of the key, still missing, invokes the getter
\* again and returns a new pending awaitable.
\* ------------------------------------------------------------------------
ResolvedToNothing(k) ==
  \E i \in 1..Len(getterPromises) :
     /\ getterPromises[i].key = k
     /\ getterPromises[i].state = "fulfilled"
     /\ getterPromises[i].value = << >>

C32_ResolvedToNothingRetries ==
  [][/\ (last'.op = "getterResolved" /\ last'.items = << >>) =>
          /\ SettledNow # {}
          /\ \A i \in SettledNow :
                /\ getterPromises'[i].state = "fulfilled"
                /\ getterPromises'[i].value = << >>
          /\ valueTypeToCache' = valueTypeToCache
          /\ last'.key \notin DOMAIN keyToPromise'
     /\ (last'.op = "get" /\ GetMisses(last'.key) /\ ResolvedToNothing(last'.key)
           /\ PendingFor(getterPromises, last'.key) = {}) =>
          /\ nCalls' = nCalls + 1
          /\ lastGet' = <<Len(getterPromises) + 1>>
          /\ getterPromises'[Len(getterPromises) + 1] = NewGetterPromise(last'.key)
    ]_vars

\* the first awaitable of k1 has resolved to nothing, nothing was inserted,
\* and the next get of k1 has invoked the getter a second time
C32_Witness ==
  /\ nCalls = 2
  /\ Len(getterPromises) = 2
  /\ getterPromises[1] = [key |-> "k1", state |-> "fulfilled", value |-> << >>,
                          waiters |-> 1]
  /\ getterPromises[2] = NewGetterPromise("k1")
  /\ last.op = "get"
  /\ lastGet = <<2>>
  /\ LiveKeys(valueTypeToCache["T1"]) = {}

\* ------------------------------------------------------------------------
\* Specification SpecSnapshot: one cache, one all-types listener, and
\* callback transactions in which a key is set twice, deleted and cleared.
\* ------------------------------------------------------------------------
MaxSnapshotEvents == 3

SnapshotItems == {Item("k1", "v1", AltString("a1")), Item("k1", "v2", AltString("a2")),
                  Item("k2", "v1", NoAlt)}

SnapshotRoom == changeOrder < MaxSnapshotEvents

NextSnapshot ==
  \/ GetCache("T1")
  \/ /\ nextHandlerKey < MaxTxHandlers
     /\ registerCacheChangedHandler(FALSE, FilterNull)
  \/ TxCallbackBegin
  \/ TxCallbackEnd(FALSE)
  \/ \E item \in SnapshotItems : SnapshotRoom /\ CacheSet("T1", item)
  \/ SnapshotRoom /\ CacheDelete("T1", "k1")
  \/ SnapshotRoom /\ CacheClear("T1")
  \/ CacheDispatchClearRemoves("T1", TRUE)

SpecSnapshot == Init /\ [][NextSnapshot]_vars

\* list a is the beginning of list b
IsPrefix(a, b) == Len(a) <= Len(b) /\ \A i \in 1..Len(a) : a[i] = b[i]

\* the record of the open transaction, empty when there is none
OpenRecord(tco) == IF tco = << >> THEN NewChangeObject ELSE tco[1]

\* ------------------------------------------------------------------------
\* C33: an event keeps the key, value and alternate keys the entry had
\* when the event was recorded: while a transaction stays open, every list
\* of its record only grows at the end, whatever is set, deleted or cleared
\* meanwhile, and a set appends an insert that shows the entry as that set
\* has left it, so two sets of one key are two inserts with the value and
\* the alternate keys of their own moment.
\* ------------------------------------------------------------------------
C33_RecordedEventsKeepTheirPayload ==
  [][/\ (runningTransactions > 0 /\ runningTransactions' > 0) =>
          \A t \in ValueTypes, kind \in Kinds :
             IsPrefix(ListOf(OpenRecord(transactionChangeObject), t, kind),
                      ListOf(OpenRecord(transactionChangeObject'), t, kind))
     /\ (last'.op = "set" /\ last'.thrown = "none" /\ runningTransactions > 0
           /\ MatchingActive({"T1"}) # {}) =>
          LET before == ListOf(OpenRecord(transactionChangeObject), "T1", "inserts")
              after == ListOf(OpenRecord(transactionChangeObject'), "T1", "inserts")
          IN  /\ Len(after) = Len(before) + 1
              /\ after[Len(after)].value = last'.items[1].value
              /\ after[Len(after)].order = changeOrder
              /\ Payload(after[Len(after)]) =
                    EntryOf(valueTypeToCache'["T1"], last'.key)
    ]_vars

\* k1 was set twice and then deleted in one open transaction: the record
\* holds two inserts of k1 with the values and alternate keys of their
\* moments, and the delete event with the entry as it was last
C33_Witness ==
  /\ runningTransactions > 0
  /\ last.op = "delete"
  /\ LET R == OpenRecord(transactionChangeObject)
     IN  /\ Len(ListOf(R, "T1", "inserts")) = 2
         /\ ListOf(R, "T1", "inserts")[1].key = "k1"
         /\ ListOf(R, "T1", "inserts")[2].key = "k1"
         /\ ListOf(R, "T1", "inserts")[1].value = "v1"
         /\ ListOf(R, "T1", "inserts")[2].value = "v2"
         /\ ListOf(R, "T1", "inserts")[1].alternateKeys #
               ListOf(R, "T1", "inserts")[2].alternateKeys
         /\ Len(ListOf(R, "T1", "deleteRemoves")) = 1
         /\ Payload(ListOf(R, "T1", "deleteRemoves")[1]) =
               Payload(ListOf(R, "T1", "inserts")[2])

\* a registry with one active all-types listener that does not throw
ListeningReg ==
  [keyToChangedHandler |->
     MapPut(EmptyMap, 0, [valueTypes |-> FilterNull, isActive |-> TRUE,
                          throws |-> FALSE, mutates |-> FALSE]),
   valueTypeToActiveChangeHandlerKeys |-> EmptyMap,
   allTypesActiveChangeHandlerKeys |-> <<0>>]

\* ------------------------------------------------------------------------
\* C34: a set, delete or clear on a cache of a value type that no active
\* listener matches leaves the aggregator as it was (the record of the
\* open transaction, the order counter, the count of running transactions)
\* and invokes no listener, and the cache ends as the same call ends it
\* when an all-types listener is registered.
\* ------------------------------------------------------------------------
C34_NoListenerNoBookkeeping ==
  [][(/\ last'.op \in {"set", "delete", "clear"}
      /\ last'.valueType \in Caches
      /\ MatchingActive({last'.valueType}) = {}) =>
        /\ transactionChangeObject' = transactionChangeObject
        /\ changeOrder' = changeOrder
        /\ runningTransactions' = runningTransactions
        /\ handleChanges'
        /\ last'.log = << >>
        /\ valueTypeToCache'[last'.valueType] = CacheAfter(ListeningReg, last')
    ]_vars

\* inside an open transaction whose record holds an event of T1, recorded
\* for a listener of T1, a set on the cache of T2 has stored its entry and
\* the record still names T1 only
C34_Witness ==
  /\ runningTransactions > 0
  /\ last.op = "set"
  /\ last.valueType = "T2"
  /\ last.thrown = "none"
  /\ MatchingActive({"T1"}) # {}
  /\ MatchingActive({"T2"}) = {}
  /\ "k1" \in LiveKeys(valueTypeToCache["T2"])
  /\ OpenRecord(transactionChangeObject).valueTypes = <<"T1">>
  /\ changeOrder = 1

\* ------------------------------------------------------------------------
\* C35: the list of an LruMap is well formed in every state: oldest and
\* newest are null exactly when the map has no key; otherwise following
\* next from oldest visits every key of keyToEntry once and ends at newest,
\* prev is the inverse of next, and oldest.prev and newest.next are null.
\* ------------------------------------------------------------------------
C35_EntryListWellFormed ==
  LET e == lruMap.keyToEntry
      K == DOMAIN e
      ks == LruMapKeys(lruMap)
  IN  /\ (lruMap.oldest = Null) <=> (K = {})
      /\ (lruMap.newest = Null) <=> (K = {})
      /\ Len(ks) = Cardinality(K)
      /\ SeqToSet(ks) = K
      /\ K # {} =>
           /\ lruMap.oldest \in K
           /\ lruMap.newest \in K
           /\ ks[1] = lruMap.oldest
           /\ ks[Len(ks)] = lruMap.newest
           /\ e[lruMap.oldest].prev = Null
           /\ e[lruMap.newest].next = Null
      /\ \A k \in K :
           /\ e[k].next # Null => (e[k].next \in K /\ e[e[k].next].prev = k)
           /\ e[k].prev # Null => (e[k].prev \in K /\ e[e[k].prev].next = k)

\* the newest of three entries was deleted, and two are left
C35_Witness ==
  /\ mapLast.op = "delete"
  /\ mapLast.key = mapLast.pre.newest
  /\ getSize(mapLast.pre) = 3
  /\ getSize(lruMap) = 2
  /\ lruMap.newest # mapLast.key

\* ------------------------------------------------------------------------
\* C36: in every state, every alternate key of the index of a cache maps
\* to a key that is in the cache, and the entry of that key lists the
\* alternate key.
\* ------------------------------------------------------------------------
C36_NoDanglingBinding ==
  \A t \in Caches :
     LET c == valueTypeToCache[t]
     IN  \A a \in DOMAIN c.alternateKeyToKey :
            /\ c.alternateKeyToKey[a] \in LiveKeys(c)
            /\ a \in EntryOf(c, c.alternateKeyToKey[a]).alternateKeys

\* an entry was deleted through its alternate key a1, which is gone from
\* the index, while another entry is left with a binding of its own
C36_Witness ==
  /\ last.op = "delete"
  /\ last.key = "a1"
  /\ last.ret = <<TRUE>>
  /\ "a1" \notin DOMAIN LastCache.alternateKeyToKey
  /\ DOMAIN LastCache.alternateKeyToKey # {}

\* ------------------------------------------------------------------------
\* C37: no listener is invoked with a record without events: every
\* invocation the last call has made carries a record that names at least
\* one value type and holds at least one event.
\* ------------------------------------------------------------------------
C37_NoEmptyRecordDispatched ==
  \A j \in 1..Len(last.log) :
     /\ last.log[j].record.valueTypes # << >>
     /\ EventsOf(<<last.log[j].record>>) # {}

\* the handler keys of the active indexes, per type and all-types
ActiveIndexKeys ==
  SeqToSet(allTypesActiveChangeHandlerKeys)
    \cup UNION {SeqToSet(valueTypeToActiveChangeHandlerKeys[t]) :
                  t \in DOMAIN valueTypeToActiveChangeHandlerKeys}

\* ------------------------------------------------------------------------
\* C38: every handler key of an active index, per type or all-types, is
\* the key of a registered handler, and a call raises a handler error only
\* if a handler function has thrown (none of the handlers registered here
\* throws, so no call raises one).
\* ------------------------------------------------------------------------
C38_ActiveIndexHoldsRegisteredOnly ==
  /\ ActiveIndexKeys \subseteq DOMAIN keyToChangedHandler
  /\ (\A h \in DOMAIN keyToChangedHandler : ~keyToChangedHandler[h].throws) =>
        (last.thrown # "handler" /\ last.handlerError = << >>)

\* the second half of C38 on its own: no call raises a handler error when
\* no registered handler throws
C38_NoErrorWithoutThrowingHandler ==
  (\A h \in DOMAIN keyToChangedHandler : ~keyToChangedHandler[h].throws) =>
     (last.thrown # "handler" /\ last.handlerError = << >>)

\* ------------------------------------------------------------------------
\* Specification SpecReentrant: one cache and handlers of which some change
\* the cache when they are called (changedHandler).  Every dispatch of
\* this specification closes a set or a delete, so the world of the
\* operation holds the cache the handler changes.
\* ------------------------------------------------------------------------
\* what a handler that changes a cache does when it is called: it deletes
\* HandlerKey from the cache of HandlerValueType if the key is there
HandlerValueType == "T1"

HandlerKey == "k2"

changedHandler(reg, w, handler) ==
  IF handler.mutates /\ HandlerKey \in DOMAIN w.cache.lruMap.keyToEntry
  THEN cacheDelete(reg, w, HandlerValueType, HandlerKey).w
  ELSE w

\* the record object handed to the handlers, as it reads after a handler
\* has run: w0 is the world before the call and w1 the world after it.
\* The object is transactionChangeObject (lines 170, 187) for as long as
\* that is not reset; a handler that changes a cache appends to it, and
\* the dispatch that closes the handler's transaction resets it.
recordAfterHandler(record, w0, w1) ==
  IF w0.tco = << >> THEN record
  ELSE IF w1.tco # << >> THEN w1.tco[1]
  ELSE IF Len(w1.log) > Len(w0.log) THEN w1.log[Len(w1.log)].record
  ELSE record

\* the call of handler key with the record, as the log shows it
handlerCalled(w, key, record) ==
  [w EXCEPT !.log = Append(@, [handler |-> key, record |-> record])]

\* the catch and finally of lines 127-133: w0 is the world before the call
\* of the handler and w1 the world it has left
handlerReturned(throws, acc, w0, w1) ==
  [w |-> [w1 EXCEPT !.thrown = acc.w.thrown,
                    !.handlerError = acc.w.handlerError,
                    !.applied = acc.w.applied,
                    !.evicted = acc.w.evicted],
   record |-> recordAfterHandler(acc.record, w0, w1),
   errors |-> acc.errors + (IF throws \/ w1.thrown # "none" THEN 1 ELSE 0),
   handled |-> acc.handled + 1]

\* one turn of the forEach of lines 123-134 when the handler may change a
\* cache (changedHandler).  The dispatch that closes the handler's own
\* cache operation calls handlers that do not find HandlerKey in the cache
\* and change nothing: it is handleTransactionChangeObject
invokeHandlerReentrant(reg, key, acc) ==
  IF key \in DOMAIN reg.keyToChangedHandler
  THEN handlerReturned(reg.keyToChangedHandler[key].throws, acc,
         handlerCalled(acc.w, key, acc.record),
         changedHandler(reg,
           [handlerCalled(acc.w, key, acc.record) EXCEPT !.thrown = "none",
                                                         !.handlerError = << >>],
           reg.keyToChangedHandler[key]))
  ELSE [acc EXCEPT !.errors = @ + 1, !.handled = @ + 1]

RECURSIVE invokeHandlersReentrant(_, _, _, _, _)
invokeHandlersReentrant(reg, keys, i, changeObject, acc) ==
  IF i > Len(keys) THEN acc
  ELSE invokeHandlersReentrant(reg, keys, i + 1, changeObject,
                               invokeHandlerReentrant(reg, keys[i], acc))

\* lines 135-143: the errors the handlers have thrown are thrown on
dispatchOutcome(r) ==
  [r.w EXCEPT !.thrown = IF r.errors > 0 THEN "handler" ELSE @,
              !.handlerError = IF r.errors > 0
                               THEN <<[errors |-> r.errors, handled |-> r.handled]>>
                               ELSE @]

\* handleTransactionChangeObject with handlers that may change a cache
handleTransactionChangeObjectReentrant(reg, w, changeObject) ==
  dispatchOutcome(
    invokeHandlersReentrant(reg, getActiveHandlerKeys(reg, changeObject.valueTypes),
                            1, changeObject,
                            [w |-> w, record |-> changeObject,
                             errors |-> 0, handled |-> 0]))

\* the reset of lines 190-193, after the dispatch
transactionReset(w) == [w EXCEPT !.tco = << >>, !.changeOrder = 0]

\* the finally block of cacheTransaction with such handlers
cacheTransactionEndReentrant(reg, w) ==
  IF w.runningTransactions = 1
  THEN transactionReset(
         handleTransactionChangeObjectReentrant(reg,
           [w EXCEPT !.runningTransactions = 0], w.tco[1]))
  ELSE [w EXCEPT !.runningTransactions = @ - 1]

\* wrapInTransaction with such handlers, after transactionCallback
wrapInTransactionEndReentrant(reg, w, valueType) ==
  IF hasActiveHandler(reg, valueType)
  THEN cacheTransactionEndReentrant(reg, w)
  ELSE [w EXCEPT !.handleChanges = TRUE]

\* setAll with such handlers
setAllReentrant(reg, w, valueType, keyValueAlternateKeysArray) ==
  wrapInTransactionEndReentrant(reg,
    setAllLoop(reg, wrapInTransactionBegin(reg, w, valueType), valueType,
               keyValueAlternateKeysArray, 1),
    valueType)

\* the entry LruCache.delete has found is removed, with such handlers
deleteEntryReentrant(reg, w, valueType, entry) ==
  wrapInTransactionEndReentrant(reg,
    handleDeleteRemove(reg,
      wrapInTransactionBegin(reg,
        [w EXCEPT !.cache.lruMap = LruMapDelete(@, entry.key).m,
                  !.cache.alternateKeyToKey = unbindAll(@, entry.alternateKeys)],
        valueType),
      valueType, entry),
    valueType)

\* LruCache.delete with such handlers; the result is [w, ret]
cacheDeleteReentrant(reg, w, valueType, keyOrAlternateKey) ==
  LET g == entryGetter(w.cache, keyOrAlternateKey, "getWithoutLruChange")
  IN  IF g.ret = << >>
      THEN [w |-> [w EXCEPT !.cache.lruMap = g.m], ret |-> FALSE]
      ELSE [w |-> deleteEntryReentrant(reg, [w EXCEPT !.cache.lruMap = g.m],
                                       valueType, g.ret[1]),
            ret |-> TRUE]

\* LruCache.set with handlers that may change a cache
CacheSetReentrant(t, item) ==
  /\ t \in DOMAIN valueTypeToCache
  /\ \E w \in {setAllReentrant(Reg, World(t), t, <<item>>)} :
         /\ Commit(t, w)
         /\ last' = CacheCall("set", t, item.key, <<item>>, << >>, w)
  /\ UNCHANGED <<mapVars, runtimeVars, registryVars>>

\* LruCache.delete with handlers that may change a cache
CacheDeleteReentrant(t, k) ==
  /\ t \in DOMAIN valueTypeToCache
  /\ \E r \in {cacheDeleteReentrant(Reg, World(t), t, k)} :
         /\ Commit(t, r.w)
         /\ last' = CacheCall("delete", t, k, << >>, <<r.ret>>, r.w)
  /\ UNCHANGED <<mapVars, runtimeVars, registryVars>>

\* registerCacheChangedHandler with a function that deletes an entry
registerCacheChangedHandlerMutating(valueTypes) ==
  /\ nextHandlerKey < MaxHandlers
  /\ \E reg \in {addToActiveHandlerKeys(Reg, nextHandlerKey, valueTypes)} :
       /\ valueTypeToActiveChangeHandlerKeys' = reg.valueTypeToActiveChangeHandlerKeys
       /\ allTypesActiveChangeHandlerKeys' = reg.allTypesActiveChangeHandlerKeys
  /\ keyToChangedHandler' =
       MapPut(keyToChangedHandler, nextHandlerKey,
              [valueTypes |-> valueTypes, isActive |-> TRUE,
               throws |-> FALSE, mutates |-> TRUE])
  /\ nextHandlerKey' = nextHandlerKey + 1
  /\ last' = [NoCacheCall EXCEPT !.op = "register"]
  /\ UNCHANGED <<mapVars, runtimeVars, aggregatorVars, valueTypeToCache>>

NextReentrant ==
  \/ GetCache("T1")
  \/ registerCacheChangedHandler(FALSE, FilterNull)
  \/ \E f \in Filters : registerCacheChangedHandlerMutating(f)
  \/ \E item \in DispatchItems : CacheSetReentrant("T1", item)
  \/ \E k \in {"k1", "k2"} : CacheDeleteReentrant("T1", k)

SpecReentrant == Init /\ [][NextReentrant]_vars

\* ------------------------------------------------------------------------
\* C39: a record is not changed and not delivered again while it is being
\* dispatched: in the invocations one cache operation makes, no handler
\* is called twice, and every handler is called with the same record, also
\* when a handler changes the cache while the dispatch is under way.
\* ------------------------------------------------------------------------
C39_RecordNotChangedNorRedelivered ==
  /\ \A h \in Invoked(last.log) : Invocations(last.log, h) <= 1
  /\ \A i, j \in 1..Len(last.log) : last.log[i].record = last.log[j].record

\* the first half of C39 on its own: no handler is called twice
C39_NoHandlerCalledTwice ==
  \A h \in Invoked(last.log) : Invocations(last.log, h) <= 1

\* without a handler that changes a cache, C39 holds
C39_HoldsWithoutMutatingHandler ==
  (\A h \in DOMAIN keyToChangedHandler : ~keyToChangedHandler[h].mutates) =>
     C39_RecordNotChangedNorRedelivered

\* ------------------------------------------------------------------------
\* Specification SpecLive: transactions with callbacks and promises on one
\* cache with a listener, with the fairness the claim and the event loop
\* give: a running callback returns or throws (WF: the innermost one; SF:
\* the outermost one, so the synchronous code of a turn ends), and the
\* finally callback of a settled promise runs once no synchronous code is
\* running (SF: it is enabled whenever a turn has ended).
\*
\* The fairness conditions are stated on the counters of the open
\* transactions: CallbackReturns, OutermostCallbackReturns and
\* PromiseSettles are the steps TxCallbackEnd and TxPromiseSettle take on
\* openCallbacks and pendingPromises. FairnessStepsAreTransactionEnds and
\* FairnessStepsEnabledAsTransactionEnds state that they are the same steps,
\* enabled in the same states.
\* ------------------------------------------------------------------------
CallbackReturns == openCallbacks > 0 /\ openCallbacks' = openCallbacks - 1

OutermostCallbackReturns == openCallbacks = 1 /\ openCallbacks' = 0

PromiseSettles ==
  /\ pendingPromises > 0
  /\ openCallbacks = 0
  /\ pendingPromises' = pendingPromises - 1

MaxLiveEvents == 2

NextLive ==
  \/ GetCache("T1")
  \/ /\ nextHandlerKey < MaxTxHandlers
     /\ \E th \in BOOLEAN : registerCacheChangedHandler(th, FilterNull)
  \/ TxCallbackBegin
  \/ \E threw \in BOOLEAN : TxCallbackEnd(threw)
  \/ TxPromiseBegin
  \/ \E rejected \in BOOLEAN : TxPromiseSettle(rejected)
  \/ changeOrder < MaxLiveEvents /\ CacheSet("T1", TxItem)
  \/ changeOrder < MaxLiveEvents /\ CacheDelete("T1", "k1")

SpecLive ==
  /\ Init
  /\ [][NextLive]_vars
  /\ WF_openCallbacks(CallbackReturns)
  /\ SF_openCallbacks(OutermostCallbackReturns)
  /\ SF_pendingPromises(PromiseSettles)

\* a step lowers a counter of open transactions exactly when it is the end
\* of a callback or the settlement of a promise
FairnessStepsAreTransactionEnds ==
  [][/\ CallbackReturns <=> \E threw \in BOOLEAN : TxCallbackEnd(threw)
     /\ OutermostCallbackReturns <=>
          (openCallbacks = 1 /\ \E threw \in BOOLEAN : TxCallbackEnd(threw))
     /\ PromiseSettles <=> \E rejected \in BOOLEAN : TxPromiseSettle(rejected)]_vars

\* the ends of the transactions are enabled exactly where the counters say
FairnessStepsEnabledAsTransactionEnds ==
  /\ (ENABLED (\E threw \in BOOLEAN : TxCallbackEnd(threw))) <=> openCallbacks > 0
  /\ (ENABLED (\E rejected \in BOOLEAN : TxPromiseSettle(rejected))) <=>
        (pendingPromises > 0 /\ openCallbacks = 0)

Idle == runningTransactions = 0 /\ transactionChangeObject = << >>

\* the events a record of SpecLive can hold
LiveEvents ==
  {[valueType |-> "T1", kind |-> k,
    event |-> [key |-> "k1", value |-> "v1", alternateKeys |-> {}, order |-> o]] :
      k \in {"inserts", "deleteRemoves"}, o \in 0..MaxLiveEvents}

\* the last call has handed a record that holds event e to a listener
Delivered(e) ==
  \E j \in 1..Len(last.log) : e \in EventsOf(<<last.log[j].record>>)

NoNewTransactions == <>[][~(TxCallbackBegin \/ TxPromiseBegin)]_vars

====
